---- MODULE Spec2Model ----
(***************************************************************************)
(* A model of the aeiou sidecar's TaskSpec pipeline                        *)
(* (src/sidecar/app: spec_generator.py, rag_system.py, memory_store.py,    *)
(* spec.py, models.py, main.py).                                           *)
(*                                                                         *)
(* Texts are TLA+ strings, handled character by character with Len, \o and *)
(* SubSeq, so that lower(), strip(), split(), substring tests and the      *)
(* regular expressions of the constraint parser are computed as Python     *)
(* computes them.  A Python dict is a function whose DOMAIN is its set of  *)
(* keys; a dict whose key order matters (json.dumps, dict.items()) is a    *)
(* sequence of entries.  test_coverage_ratio is held in hundredths         *)
(* (0.3 is 30, 1.0 is 100).                                                *)
(***************************************************************************)
EXTENDS Bags, FiniteSets, Integers, Naturals, Sequences, TLC

VARIABLES
    style_profile,  \* SpecGenerator.style_profile, loaded once by __init__
    decisions,      \* rows of the decisions table of the MemoryStore, oldest first
    readable,       \* whether sqlite3 can open aeiou_memory.db and run a statement
    call,           \* the operation handled last and its input
                    \* (SpecConcurrent: the call of each thread)
    ret             \* what that operation returned (or that it raised)
                    \* (SpecConcurrent: the result of each thread)

vars == <<style_profile, decisions, readable, call, ret>>

(***************************************************************************)
(* Text primitives                                                         *)
(***************************************************************************)

Char(s, i) == SubSeq(s, i, i)

\* str whitespace, as seen by \s, str.split() and str.strip()
Whitespace == {" ", "\t", "\n"}

\* the lower-case letter of every upper-case letter
LowerOf ==
    [A |-> "a", B |-> "b", C |-> "c", D |-> "d", E |-> "e", F |-> "f", G |-> "g",
     H |-> "h", I |-> "i", J |-> "j", K |-> "k", L |-> "l", M |-> "m", N |-> "n",
     O |-> "o", P |-> "p", Q |-> "q", R |-> "r", S |-> "s", T |-> "t", U |-> "u",
     V |-> "v", W |-> "w", X |-> "x", Y |-> "y", Z |-> "z"]

LowerChar(c) == IF c \in DOMAIN LowerOf THEN LowerOf[c] ELSE c

\* str.lower(), halving the text so that long texts need no deep recursion
RECURSIVE Lower(_)
Lower(s) ==
    IF Len(s) = 0 THEN ""
    ELSE IF Len(s) = 1 THEN LowerChar(s)
    ELSE Lower(SubSeq(s, 1, Len(s) \div 2))
         \o Lower(SubSeq(s, (Len(s) \div 2) + 1, Len(s)))

\* sub == s[i : i+len(sub)]   (i is 1-based)
StartsAt(s, i, sub) ==
    /\ i + Len(sub) - 1 <= Len(s)
    /\ SubSeq(s, i, i + Len(sub) - 1) = sub

\* sub in s
Contains(s, sub) == \E i \in 1..(Len(s) - Len(sub) + 1) : StartsAt(s, i, sub)

\* str.strip()
Strip(s) ==
    LET keep == {i \in 1..Len(s) : Char(s, i) \notin Whitespace}
        lo == CHOOSE i \in keep : \A j \in keep : i <= j
        hi == CHOOSE i \in keep : \A j \in keep : i >= j
    IN  IF keep = {} THEN "" ELSE SubSeq(s, lo, hi)

\* the index after the longest run of characters of s, from i on, that satisfy
\* "is whitespace" = ws
RECURSIVE RunEnd(_, _, _)
RunEnd(s, i, ws) ==
    IF i <= Len(s) /\ ((Char(s, i) \in Whitespace) = ws)
    THEN RunEnd(s, i + 1, ws)
    ELSE i

\* str.split() with no argument: the maximal runs of non-whitespace
RECURSIVE SplitWsFrom(_, _)
SplitWsFrom(s, i) ==
    LET b == RunEnd(s, i, TRUE)
        e == RunEnd(s, b, FALSE)
    IN  IF b > Len(s) THEN <<>> ELSE <<SubSeq(s, b, e - 1)>> \o SplitWsFrom(s, e)

SplitWs(s) == SplitWsFrom(s, 1)

\* the index of the first sep at or after i, Len(s)+1 when there is none
RECURSIVE FindChar(_, _, _)
FindChar(s, i, sep) ==
    IF i > Len(s) \/ Char(s, i) = sep THEN i ELSE FindChar(s, i + 1, sep)

\* str.split(sep) for a one-character sep: always at least one item
RECURSIVE SplitOnFrom(_, _, _)
SplitOnFrom(s, i, sep) ==
    LET e == FindChar(s, i, sep)
    IN  IF e > Len(s)
        THEN <<SubSeq(s, i, Len(s))>>
        ELSE <<SubSeq(s, i, e - 1)>> \o SplitOnFrom(s, e + 1, sep)

SplitOn(s, sep) == SplitOnFrom(s, 1, sep)

\* sep.join(items)
RECURSIVE Join(_, _)
Join(items, sep) ==
    IF items = <<>> THEN ""
    ELSE IF Len(items) = 1 THEN items[1]
    ELSE items[1] \o sep \o Join(Tail(items), sep)

\* x in list
InList(x, list) == \E i \in 1..Len(list) : list[i] = x

\* the number of occurrences of x in list
Count(x, list) == Cardinality({i \in 1..Len(list) : list[i] = x})

\* set(list)
ToSet(list) == {list[i] : i \in 1..Len(list)}

\* the lists that list(a_set) can be: a set has no order of its own
Orderings(S) ==
    {q \in [1..Cardinality(S) -> S] : \A i, j \in 1..Cardinality(S) : i # j => q[i] # q[j]}

\* dict.get(key, default)
Get(d, key, default) == IF key \in DOMAIN d THEN d[key] ELSE default

NoDict == [k \in {} |-> 0]

(***************************************************************************)
(* models.py: TaskSpec                                                     *)
(***************************************************************************)

TaskSpecFields ==
    {"goal", "inputs", "outputs", "constraints_explicit", "constraints_inferred",
     "libraries_preferred", "libraries_forbidden", "style_guides",
     "naming_conventions", "design_patterns", "testing_strategy", "edge_cases",
     "verbosity", "open_questions", "risk", "priority", "estimated_cost"}

\* the field defaults of the pydantic model ("goal" has none: it is required)
TaskSpecDefaults ==
    [inputs |-> <<>>, outputs |-> <<>>, constraints_explicit |-> <<>>,
     constraints_inferred |-> <<>>, libraries_preferred |-> <<>>,
     libraries_forbidden |-> <<>>, style_guides |-> <<>>,
     naming_conventions |-> <<>>, design_patterns |-> <<>>,
     testing_strategy |-> "", edge_cases |-> <<>>, verbosity |-> "normal",
     open_questions |-> <<>>, risk |-> "medium", priority |-> "medium",
     estimated_cost |-> "medium"]

\* Literal["minimal", "normal", "verbose"], the one enumeration the model declares
VerbosityLiteral == {"minimal", "normal", "verbose"}

\* TaskSpec(**d) is accepted: goal is given and verbosity is one of the Literal's
\* values.  risk, priority and estimated_cost are declared str: any text passes.
TaskSpecAccepts(d) ==
    /\ "goal" \in DOMAIN d
    /\ Get(d, "verbosity", "normal") \in VerbosityLiteral

\* TaskSpec(**d): the declared fields, defaults for the missing ones, any other
\* key of d ignored
TaskSpec(d) ==
    [f \in TaskSpecFields |-> IF f \in DOMAIN d THEN d[f] ELSE TaskSpecDefaults[f]]

(***************************************************************************)
(* spec_generator.py: the signal scorer                                    *)
(***************************************************************************)

\* analysis_data.get("duplication", 0)
Duplication(analysis_data) == Get(analysis_data, "duplication", 0)

\* analysis_data.get("complexity", {}).get("complexity_score", 0)
ComplexityScore(analysis_data) ==
    Get(Get(analysis_data, "complexity", NoDict), "complexity_score", 0)

\* analysis_data.get("test_gap", {}).get("test_coverage_ratio", 1.0), in hundredths
TestCoverageRatio(analysis_data) ==
    Get(Get(analysis_data, "test_gap", NoDict), "test_coverage_ratio", 100)

\* analysis_data.get("todos_dead_code", {}).get("todos", 0)
Todos(analysis_data) ==
    Get(Get(analysis_data, "todos_dead_code", NoDict), "todos", 0)

\* risk_score with the complexity threshold taken inclusively (>= 50)
risk_score_ge(analysis_data) ==
    (IF ComplexityScore(analysis_data) > 100 THEN 3
     ELSE IF ComplexityScore(analysis_data) >= 50 THEN 2
     ELSE 0)
    + (IF TestCoverageRatio(analysis_data) < 30 THEN 3
       ELSE IF TestCoverageRatio(analysis_data) < 50 THEN 2
       ELSE 0)
    + (IF Todos(analysis_data) > 5 THEN 2 ELSE 0)

\* the local risk_score of _calculate_risk when it reaches its final if
risk_score(analysis_data) ==
    (IF ComplexityScore(analysis_data) > 100 THEN 3
     ELSE IF ComplexityScore(analysis_data) > 50 THEN 2
     ELSE 0)
    + (IF TestCoverageRatio(analysis_data) < 30 THEN 3
       ELSE IF TestCoverageRatio(analysis_data) < 50 THEN 2
       ELSE 0)
    + (IF Todos(analysis_data) > 5 THEN 2 ELSE 0)

\* _calculate_risk with the two levels cut one point too high
_calculate_risk_gt(analysis_data) ==
    IF risk_score(analysis_data) > 5 THEN "high"
    ELSE IF risk_score(analysis_data) > 3 THEN "medium"
    ELSE "low"

_calculate_risk(analysis_data) ==
    IF risk_score(analysis_data) >= 5 THEN "high"
    ELSE IF risk_score(analysis_data) >= 3 THEN "medium"
    ELSE "low"

\* priority_score with the lower duplication and complexity checks made else-ifs
priority_score_elif(analysis_data) ==
    (IF Duplication(analysis_data) > 10 THEN 3
     ELSE IF Duplication(analysis_data) > 5 THEN 2 ELSE 0)
    + (IF ComplexityScore(analysis_data) > 100 THEN 3
       ELSE IF ComplexityScore(analysis_data) > 50 THEN 2 ELSE 0)
    + (IF TestCoverageRatio(analysis_data) < 20 THEN 3 ELSE 0)

\* the local priority_score of _calculate_priority when it reaches its final if
priority_score(analysis_data) ==
    (IF Duplication(analysis_data) > 10 THEN 3 ELSE 0)
    + (IF ComplexityScore(analysis_data) > 100 THEN 3 ELSE 0)
    + (IF TestCoverageRatio(analysis_data) < 20 THEN 3 ELSE 0)
    + (IF Duplication(analysis_data) > 5 THEN 2 ELSE 0)
    + (IF ComplexityScore(analysis_data) > 50 THEN 2 ELSE 0)

_calculate_priority(analysis_data) ==
    IF priority_score(analysis_data) >= 6 THEN "high"
    ELSE IF priority_score(analysis_data) >= 3 THEN "medium"
    ELSE "low"

\* the local cost_score of _estimate_cost when it reaches its final if
\* (// is floor division, as \div is)
cost_score(analysis_data) ==
    (ComplexityScore(analysis_data) \div 10)
    + (Duplication(analysis_data) \div 2)
    + (IF TestCoverageRatio(analysis_data) < 50 THEN 2 ELSE 0)

\* _estimate_cost with the two levels cut inclusively
_estimate_cost_ge(analysis_data) ==
    IF cost_score(analysis_data) >= 10 THEN "high"
    ELSE IF cost_score(analysis_data) >= 5 THEN "medium"
    ELSE "low"

_estimate_cost(analysis_data) ==
    IF cost_score(analysis_data) > 10 THEN "high"
    ELSE IF cost_score(analysis_data) > 5 THEN "medium"
    ELSE "low"

\* the list "issues" of _infer_goal_from_analysis
GoalIssues(analysis_data) ==
    (IF Duplication(analysis_data) > 3 THEN <<"refactor duplicated code">> ELSE <<>>)
    \o (IF ComplexityScore(analysis_data) > 50
        THEN <<"simplify complex functions">> ELSE <<>>)
    \o (IF TestCoverageRatio(analysis_data) < 50 THEN <<"add missing tests">> ELSE <<>>)
    \o (IF Todos(analysis_data) > 2 THEN <<"address TODO items">> ELSE <<>>)

\* _infer_goal_from_analysis without its else branch
_infer_goal_no_else(analysis_data, filename) ==
    "Improve code quality in " \o filename \o ": "
    \o Join(GoalIssues(analysis_data), ", ")

_infer_goal_from_analysis(analysis_data, filename) ==
    IF GoalIssues(analysis_data) # <<>>
    THEN "Improve code quality in " \o filename \o ": "
         \o Join(GoalIssues(analysis_data), ", ")
    ELSE "Maintain code quality in " \o filename

\* the constraints_inferred that cluster_signals_to_taskspec collects from the
\* four issue checks, before the style profile is merged
IssueConstraints(analysis_data) ==
    (IF Duplication(analysis_data) > 3 THEN <<"Address code duplication">> ELSE <<>>)
    \o (IF ComplexityScore(analysis_data) > 50
        THEN <<"Reduce function complexity">> ELSE <<>>)
    \o (IF TestCoverageRatio(analysis_data) < 50
        THEN <<"Improve test coverage">> ELSE <<>>)
    \o (IF Todos(analysis_data) > 2
        THEN <<"Address outstanding TODO items">> ELSE <<>>)

\* the open_questions that cluster_signals_to_taskspec collects
IssueQuestions(analysis_data) ==
    (IF Duplication(analysis_data) > 3
     THEN <<"Which duplicated sections should be refactored into shared functions?">>
     ELSE <<>>)
    \o (IF ComplexityScore(analysis_data) > 50
        THEN <<"How can this complex function be broken down?">> ELSE <<>>)
    \o (IF TestCoverageRatio(analysis_data) < 50
        THEN <<"Which functions need test cases?">> ELSE <<>>)
    \o (IF Todos(analysis_data) > 2
        THEN <<"Which TODO items should be prioritized?">> ELSE <<>>)

\* os.path.basename: what follows the last "/"
basename(path) ==
    LET slashes == {i \in 1..Len(path) : Char(path, i) = "/"}
        last == IF slashes = {} THEN 0
                ELSE CHOOSE i \in slashes : \A j \in slashes : j <= i
    IN  SubSeq(path, last + 1, Len(path))

(***************************************************************************)
(* spec_generator.py: the constraint parser                                *)
(*                                                                         *)
(* A regular expression is the sequence of its elements:                   *)
(*   lit  one of the literal alternatives, tried in order   (?:prefer|use) *)
(*   ws   \s+                                                              *)
(*   opt  an optional literal followed by \s+               (?:using\s+)?  *)
(*   cap  the capture group ([^\s,.]+), always the last element            *)
(* and is matched as re matches it: greedily, backtracking on failure.     *)
(***************************************************************************)

Lit(alts) == [kind |-> "lit", alts |-> alts]
Ws == [kind |-> "ws"]
Opt(lit) == [kind |-> "opt", lit |-> lit]
Cap == [kind |-> "cap"]

avoid_patterns ==
    << <<Lit(<<"avoid">>), Ws, Opt("using"), Cap>>,
       <<Lit(<<"don't">>), Ws, Lit(<<"use">>), Ws, Cap>>,
       <<Lit(<<"forbid">>), Ws, Cap>>,
       <<Lit(<<"no">>), Ws, Cap>>,
       <<Lit(<<"without">>), Ws, Cap>> >>

prefer_patterns ==
    << <<Lit(<<"prefer", "use">>), Ws, Opt("the"), Cap>>,
       <<Lit(<<"must", "should">>), Ws, Lit(<<"use">>), Ws, Cap>>,
       <<Lit(<<"with">>), Ws, Cap>>,
       <<Lit(<<"using">>), Ws, Cap>> >>

\* the index after the longest run, from i on, of characters of [^\s,.]
RECURSIVE CapEnd(_, _)
CapEnd(s, i) ==
    IF i <= Len(s) /\ Char(s, i) \notin (Whitespace \cup {",", "."})
    THEN CapEnd(s, i + 1)
    ELSE i

NoMatch == <<0, 0>>

\* MatchSeq(pat, s, i): the pattern elements pat matched against s from index i on;
\* <<first index of the capture, index after it>>, or NoMatch
RECURSIVE MatchSeq(_, _, _), MatchAlts(_, _, _, _, _), MatchWs(_, _, _, _)
MatchSeq(pat, s, i) ==
    LET e == Head(pat)
        rest == Tail(pat)
    IN  CASE e.kind = "cap" ->
                IF CapEnd(s, i) > i THEN <<i, CapEnd(s, i)>> ELSE NoMatch
          [] e.kind = "lit" -> MatchAlts(e.alts, 1, rest, s, i)
          [] e.kind = "ws" -> MatchWs(rest, s, i, RunEnd(s, i, TRUE) - i)
          [] e.kind = "opt" ->
                IF MatchSeq(<<Lit(<<e.lit>>), Ws>> \o rest, s, i) # NoMatch
                THEN MatchSeq(<<Lit(<<e.lit>>), Ws>> \o rest, s, i)
                ELSE MatchSeq(rest, s, i)

\* the first alternative, in order, with which the rest of the pattern matches
MatchAlts(alts, a, rest, s, i) ==
    IF a > Len(alts) THEN NoMatch
    ELSE IF StartsAt(s, i, alts[a]) /\ MatchSeq(rest, s, i + Len(alts[a])) # NoMatch
    THEN MatchSeq(rest, s, i + Len(alts[a]))
    ELSE MatchAlts(alts, a + 1, rest, s, i)

\* \s+ : n whitespace characters, the most first, at least one
MatchWs(rest, s, i, n) ==
    IF n < 1 THEN NoMatch
    ELSE IF MatchSeq(rest, s, i + n) # NoMatch THEN MatchSeq(rest, s, i + n)
    ELSE MatchWs(rest, s, i, n - 1)

\* re.findall(pattern, s) for a pattern with one group: the captures of the
\* leftmost non-overlapping matches.  starts are the indices at which the pattern
\* matches; the scan resumes where a match ended.
RECURSIVE FindAllFrom(_, _, _, _)
FindAllFrom(pat, s, starts, i) ==
    LET left == {j \in starts : j >= i}
        j == CHOOSE j \in left : \A k \in left : j <= k
    IN  IF left = {} THEN <<>>
        ELSE <<SubSeq(s, MatchSeq(pat, s, j)[1], MatchSeq(pat, s, j)[2] - 1)>>
             \o FindAllFrom(pat, s, starts, MatchSeq(pat, s, j)[2])

findall(pat, s) ==
    FindAllFrom(pat, s, {j \in 1..Len(s) : MatchSeq(pat, s, j) # NoMatch}, 1)

StopWords == {"the", "a", "an", "to", "and", "or"}

\* for match in matches: if match not in [...]: libraries.append(match.strip())
RECURSIVE KeepLibraries(_)
KeepLibraries(matches) ==
    IF matches = <<>> THEN <<>>
    ELSE (IF Head(matches) \notin StopWords THEN <<Strip(Head(matches))>> ELSE <<>>)
         \o KeepLibraries(Tail(matches))

\* the two "for pattern in ..." loops of parse_explicit_constraints
RECURSIVE LibrariesOf(_, _)
LibrariesOf(patterns, lower_prompt) ==
    IF patterns = <<>> THEN <<>>
    ELSE KeepLibraries(findall(Head(patterns), lower_prompt))
         \o LibrariesOf(Tail(patterns), lower_prompt)

\* the trigger phrases of parse_explicit_constraints
ExplicitConstraints(lower_prompt) ==
    (IF Contains(lower_prompt, "no dependencies")
        \/ Contains(lower_prompt, "no external deps")
     THEN <<"Minimize external dependencies">> ELSE <<>>)
    \o (IF Contains(lower_prompt, "performance")
        THEN <<"Optimize for performance">> ELSE <<>>)
    \o (IF Contains(lower_prompt, "security") \/ Contains(lower_prompt, "secure")
        THEN <<"Follow security best practices">> ELSE <<>>)
    \o (IF Contains(lower_prompt, "async") \/ Contains(lower_prompt, "asynchronous")
        THEN <<"Use asynchronous programming">> ELSE <<>>)
    \o (IF Contains(lower_prompt, "type") /\ Contains(lower_prompt, "hint")
        THEN <<"Use type hints">> ELSE <<>>)
    \o (IF Contains(lower_prompt, "test")
        THEN <<"Include comprehensive tests">> ELSE <<>>)

parse_explicit_constraints(prompt) ==
    [constraints_explicit |-> ExplicitConstraints(Lower(prompt)),
     libraries_forbidden |-> LibrariesOf(avoid_patterns, Lower(prompt)),
     libraries_preferred |-> LibrariesOf(prefer_patterns, Lower(prompt))]

(***************************************************************************)
(* memory_store.py: the decisions table                                    *)
(*                                                                         *)
(* A stored spec is a JSON object: [keys |-> its keys in order, val |->    *)
(* the dict].  The values of StringKeys are texts, every other value is a  *)
(* list of texts.  Rows are kept oldest first; all rows of a run are       *)
(* younger than the 30 days after which get_decisions stops returning an   *)
(* unpinned row.                                                           *)
(***************************************************************************)

StringKeys ==
    {"goal", "testing_strategy", "verbosity", "risk", "priority", "estimated_cost"}

Quoted(text) == "\"" \o text \o "\""

RECURSIVE QuotedAll(_)
QuotedAll(list) ==
    IF list = <<>> THEN <<>> ELSE <<Quoted(Head(list))>> \o QuotedAll(Tail(list))

RECURSIVE JsonMembers(_, _)
JsonMembers(keys, val) ==
    IF keys = <<>> THEN <<>>
    ELSE <<Quoted(Head(keys)) \o ": "
           \o (IF Head(keys) \in StringKeys
               THEN Quoted(val[Head(keys)])
               ELSE "[" \o Join(QuotedAll(val[Head(keys)]), ", ") \o "]")>>
         \o JsonMembers(Tail(keys), val)

\* json.dumps(spec), with the default separators
JsonDumps(spec) == "{" \o Join(JsonMembers(spec.keys, spec.val), ", ") \o "}"

\* MemoryStore.store_decision: INSERT INTO decisions
store_decision(rows, project, spec) ==
    Append(rows, [id |-> Len(rows) + 1, project |-> project, spec |-> spec,
                  pinned |-> FALSE])

RECURSIVE Reverse(_)
Reverse(list) ==
    IF list = <<>> THEN <<>> ELSE Append(Reverse(Tail(list)), Head(list))

Take(list, n) == SubSeq(list, 1, IF Len(list) < n THEN Len(list) ELSE n)

\* MemoryStore.get_decisions: WHERE project = ? ... ORDER BY ts DESC LIMIT ?
get_decisions(rows, project, limit) ==
    Take(Reverse(SelectSeq(rows, LAMBDA r : r.project = project)), limit)

(***************************************************************************)
(* rag_system.py: retrieval and enrichment                                 *)
(***************************************************************************)

\* all(...) in place of any(...) in the keyword test of retrieve_context
IsRelevant_all(decision, query_lower) ==
    LET spec_text == Lower(JsonDumps(decision.spec))
        keywords == SplitWs(query_lower)
    IN  \A k \in 1..Len(keywords) : Contains(spec_text, keywords[k])

\* any(keyword in spec_text for keyword in query_lower.split())
IsRelevant(decision, query_lower) ==
    LET spec_text == Lower(JsonDumps(decision.spec))
        keywords == SplitWs(query_lower)
    IN  \E k \in 1..Len(keywords) : Contains(spec_text, keywords[k])

\* the for loop of retrieve_context: the relevant decisions, in order, until
\* max_items of them are collected
RECURSIVE RelevantDecisions(_, _, _, _)
RelevantDecisions(found, rest, query_lower, max_items) ==
    IF rest = <<>> THEN found
    ELSE IF IsRelevant(Head(rest), query_lower)
    THEN IF Len(found) + 1 >= max_items
         THEN Append(found, Head(rest))
         ELSE RelevantDecisions(Append(found, Head(rest)), Tail(rest),
                                query_lower, max_items)
    ELSE RelevantDecisions(found, Tail(rest), query_lower, max_items)

\* RAGPolicy.token_budget, as RAGPolicy() sets it
token_budget == 2000

\* str(n) for a natural number n
RECURSIVE Digits(_)
Digits(n) ==
    IF n < 10 THEN Char("0123456789", n + 1)
    ELSE Digits(n \div 10) \o Char("0123456789", (n % 10) + 1)

\* the ts of a row as json.dumps writes it: int(time.time()) has ten digits
TimestampText == "1762421000"

\* json.dumps(item) for an item of get_decisions
ItemJson(decision) ==
    "{\"id\": " \o Digits(decision.id)
    \o ", \"timestamp\": " \o TimestampText
    \o ", \"spec\": " \o JsonDumps(decision.spec)
    \o ", \"pinned\": " \o (IF decision.pinned THEN "true" ELSE "false") \o "}"

\* RAGPolicy._estimate_tokens
RECURSIVE _estimate_tokens(_)
_estimate_tokens(items) ==
    IF items = <<>> THEN 0
    ELSE (Len(ItemJson(Head(items))) \div 4) + _estimate_tokens(Tail(items))

\* RAGPolicy.retrieve_context
retrieve_context(rows, query, max_items) ==
    LET relevant_decisions ==
            RelevantDecisions(<<>>, get_decisions(rows, "current_project", 20),
                              Lower(query), max_items)
    IN  [decisions |-> Take(relevant_decisions, max_items),
         similar_items |-> <<>>,
         total_tokens |-> _estimate_tokens(relevant_decisions)]

\* should_retrieve with >= in place of > in both tests
should_retrieve_ge(query_complexity, available_tokens) ==
    IF query_complexity = "high" /\ available_tokens * 10 >= token_budget * 5 THEN TRUE
    ELSE IF query_complexity = "medium" /\ available_tokens * 10 >= token_budget * 3 THEN TRUE
    ELSE FALSE

\* RAGPolicy.should_retrieve: available_tokens > self.token_budget * 0.5 and
\* available_tokens > self.token_budget * 0.3, in tenths
should_retrieve(query_complexity, available_tokens) ==
    IF query_complexity = "high" /\ available_tokens * 10 > token_budget * 5 THEN TRUE
    ELSE IF query_complexity = "medium" /\ available_tokens * 10 > token_budget * 3 THEN TRUE
    ELSE FALSE

\* summarize_overflow with < in place of <= in the test of total_tokens
summarize_overflow_lt(context, max_tokens) ==
    IF context.total_tokens < max_tokens THEN context
    ELSE LET kept == IF Len(context.decisions) > 2
                     THEN Take(context.decisions, 2) ELSE context.decisions
         IN  [context EXCEPT !.decisions = kept,
                             !.total_tokens = _estimate_tokens(kept \o context.similar_items)]

\* RAGPolicy.summarize_overflow
summarize_overflow(context, max_tokens) ==
    IF context.total_tokens <= max_tokens THEN context
    ELSE LET kept == IF Len(context.decisions) > 2
                     THEN Take(context.decisions, 2) ELSE context.decisions
         IN  [context EXCEPT !.decisions = kept,
                             !.total_tokens = _estimate_tokens(kept \o context.similar_items)]

\* decision.get("spec", {}).get(key, []) for a list-valued key
SpecList(decision, key) == Get(decision.spec.val, key, <<>>)

\* the lists SpecList(decision, key) of all decisions, one after the other
RECURSIVE AllOf(_, _)
AllOf(decisions_, key) ==
    IF decisions_ = <<>> THEN <<>>
    ELSE SpecList(Head(decisions_), key) \o AllOf(Tail(decisions_), key)

\* list without its repetitions, in first-seen order
RECURSIVE Dedup(_)
Dedup(list) ==
    IF list = <<>> THEN <<>>
    ELSE LET front == Dedup(SubSeq(list, 1, Len(list) - 1))
         IN  IF InList(list[Len(list)], front) THEN front
             ELSE Append(front, list[Len(list)])

RECURSIVE Prefixed(_, _)
Prefixed(prefix, list) ==
    IF list = <<>> THEN <<>>
    ELSE <<prefix \o Head(list)>> \o Prefixed(prefix, Tail(list))

\* RAGEnrichment._extract_patterns_from_context: constraint_counts keeps its keys
\* in first-seen order and counts every occurrence
_extract_patterns_from_context(context) ==
    IF Len(context.decisions) < 2 THEN <<>>
    ELSE LET all == AllOf(context.decisions, "constraints_inferred")
         IN  Prefixed("Pattern: ",
                      SelectSeq(Dedup(all), LAMBDA c : Count(c, all) >= 2))

\* _extract_edge_cases_from_context without the [:5] of its return
_extract_edge_cases_unlimited(context) ==
    Dedup(AllOf(context.decisions, "edge_cases"))

\* RAGEnrichment._extract_edge_cases_from_context
_extract_edge_cases_from_context(context) ==
    Take(Dedup(AllOf(context.decisions, "edge_cases")), 5)

RECURSIVE Goals(_)
Goals(decisions_) ==
    IF decisions_ = <<>> THEN <<>>
    ELSE (IF Get(Head(decisions_).spec.val, "goal", "") # ""
          THEN <<Head(decisions_).spec.val["goal"]>> ELSE <<>>)
         \o Goals(Tail(decisions_))

\* RAGEnrichment._extract_examples_from_context
_extract_examples_from_context(context) ==
    Take(Prefixed("Similar task: ", Goals(context.decisions)), 3)

\* d with d[key] set to value (a key d lacks is added)
Put(d, key, value) ==
    [k \in DOMAIN d \cup {key} |-> IF k = key THEN value ELSE d[k]]

\* RAGEnrichment.enrich_taskspec on the dict taskspec, rows being the table
enrich_taskspec(taskspec, rows) ==
    IF Get(taskspec, "goal", "") = "" THEN taskspec
    ELSE LET context == retrieve_context(rows, taskspec["goal"], 5)
             patterns == _extract_patterns_from_context(context)
             edge_cases == _extract_edge_cases_from_context(context)
             examples == _extract_examples_from_context(context)
             e1 == IF patterns # <<>>
                   THEN Put(taskspec, "constraints_inferred",
                            Get(taskspec, "constraints_inferred", <<>>) \o patterns)
                   ELSE taskspec
             e2 == IF edge_cases # <<>>
                   THEN Put(e1, "edge_cases", Get(e1, "edge_cases", <<>>) \o edge_cases)
                   ELSE e1
         IN  IF examples # <<>> THEN Put(e2, "examples", examples) ELSE e2

\* enrich_taskspec that retrieves whatever the goal
retrieves_always(taskspec) == TRUE

\* enrich_taskspec(taskspec) gets as far as retrieve_context, which reads the
\* decisions table: it returns before that when the goal is missing or empty
retrieves(taskspec) == Get(taskspec, "goal", "") # ""

(***************************************************************************)
(* spec_generator.py: the style profile and the assembly                   *)
(***************************************************************************)

_get_default_style_profile ==
    [naming_conventions |-> <<"functions: snake_case", "classes: PascalCase">>,
     testing_strategy |-> "pytest; arrange-act-assert",
     style_guides |-> <<"google docstrings">>,
     design_patterns |-> <<"dependency_injection", "pure_functions_first">>,
     libraries_preferred |-> <<>>,
     libraries_forbidden |-> <<>>]

\* SpecGenerator._load_style_profile on ~/.aeiou/style_profile.json:
\* file.exists: the path exists; file.loads: open() and json.load() succeed
_load_style_profile(file) ==
    IF file.exists /\ file.loads THEN file.content ELSE _get_default_style_profile

NoParsedConstraints ==
    [constraints_explicit |-> <<>>, libraries_forbidden |-> <<>>,
     libraries_preferred |-> <<>>]

\* parsed_constraints of cluster_signals_to_taskspec
ParsedConstraints(analysis_data) ==
    IF Get(analysis_data, "prompt", "") # ""
    THEN parse_explicit_constraints(analysis_data["prompt"])
    ELSE NoParsedConstraints

\* set(parsed_constraints['libraries_preferred'] + style_profile.get(..., []))
PreferredSet(profile, analysis_data) ==
    ToSet(ParsedConstraints(analysis_data).libraries_preferred
          \o Get(profile, "libraries_preferred", <<>>))

ForbiddenSet(profile, analysis_data) ==
    ToSet(ParsedConstraints(analysis_data).libraries_forbidden
          \o Get(profile, "libraries_forbidden", <<>>))

\* SpecGenerator.cluster_signals_to_taskspec.  all_preferred and all_forbidden are
\* the lists that list(set(...)) made: orderings of PreferredSet and ForbiddenSet.
cluster_signals_to_taskspec(profile, rows, analysis_data, all_preferred, all_forbidden) ==
    LET filepath == Get(analysis_data, "filepath", "")
        filename == IF filepath # "" THEN basename(filepath) ELSE "unknown"
        taskspec ==
            [goal |-> _infer_goal_from_analysis(analysis_data, filename),
             inputs |-> IF filepath # "" THEN <<filepath>> ELSE <<>>,
             outputs |-> <<>>,
             constraints_explicit |-> ParsedConstraints(analysis_data).constraints_explicit,
             constraints_inferred |->
                 IssueConstraints(analysis_data)
                 \o Prefixed("Follow ", Get(profile, "style_guides", <<>>)),
             libraries_preferred |-> all_preferred,
             libraries_forbidden |-> all_forbidden,
             style_guides |-> Get(profile, "style_guides", <<>>),
             naming_conventions |-> Get(profile, "naming_conventions", <<>>),
             design_patterns |-> Get(profile, "design_patterns", <<>>),
             testing_strategy |-> Get(profile, "testing_strategy", ""),
             edge_cases |-> <<>>,
             verbosity |-> "normal",
             open_questions |-> IssueQuestions(analysis_data),
             risk |-> _calculate_risk(analysis_data),
             priority |-> _calculate_priority(analysis_data),
             estimated_cost |-> _estimate_cost(analysis_data)]
    IN  TaskSpec(enrich_taskspec(TaskSpec(taskspec), rows))

(***************************************************************************)
(* Calls and their results                                                 *)
(***************************************************************************)

Idle == [op |-> "idle"]
NoResult == [status |-> "none"]
Pending == [status |-> "pending"]
Returned(value) == [status |-> "returned", value |-> value]
Raised(error) == [status |-> "raised", error |-> error]

\* a call of op with input arg has been made and has not returned yet
Called(op) == call.op = op /\ ret = Pending

\* the call of op handled last has returned
Done(op) == call.op = op /\ ret.status = "returned"

(***************************************************************************)
(* spec_generator.py: merging answers                                      *)
(***************************************************************************)

RECURSIVE StripAll(_)
StripAll(items) ==
    IF items = <<>> THEN <<>> ELSE <<Strip(Head(items))>> \o StripAll(Tail(items))

\* answer.split(",") without the strip() of the items
SplitAnswer_untrimmed(answer) == SplitOn(answer, ",")

\* [item.strip() for item in answer.split(",")]
SplitAnswer(answer) == StripAll(SplitOn(answer, ","))

\* the loop body with a last else that keeps an unmatched answer as a constraint
ApplyAnswer_else(enhanced, question, answer) ==
    LET q == Lower(question)
    IN  IF Contains(q, "inputs")
        THEN [enhanced EXCEPT !.inputs = SplitAnswer(answer)]
        ELSE IF Contains(q, "outputs")
        THEN [enhanced EXCEPT !.outputs = SplitAnswer(answer)]
        ELSE IF Contains(q, "testing")
        THEN [enhanced EXCEPT !.testing_strategy = answer]
        ELSE IF Contains(q, "requirements") \/ Contains(q, "constraints")
        THEN [enhanced EXCEPT !.constraints_explicit = Append(@, answer)]
        ELSE IF Contains(q, "edge cases")
        THEN [enhanced EXCEPT !.edge_cases = SplitAnswer(answer)]
        ELSE IF Contains(q, "libraries") /\ Contains(q, "preferred")
        THEN [enhanced EXCEPT !.libraries_preferred = SplitAnswer(answer)]
        ELSE IF Contains(q, "libraries") /\ Contains(q, "forbidden")
        THEN [enhanced EXCEPT !.libraries_forbidden = SplitAnswer(answer)]
        ELSE [enhanced EXCEPT !.constraints_explicit = Append(@, answer)]

\* one turn of the loop of enhance_taskspec_with_answers
ApplyAnswer(enhanced, question, answer) ==
    LET q == Lower(question)
    IN  IF Contains(q, "inputs")
        THEN [enhanced EXCEPT !.inputs = SplitAnswer(answer)]
        ELSE IF Contains(q, "outputs")
        THEN [enhanced EXCEPT !.outputs = SplitAnswer(answer)]
        ELSE IF Contains(q, "testing")
        THEN [enhanced EXCEPT !.testing_strategy = answer]
        ELSE IF Contains(q, "requirements") \/ Contains(q, "constraints")
        THEN [enhanced EXCEPT !.constraints_explicit = Append(@, answer)]
        ELSE IF Contains(q, "edge cases")
        THEN [enhanced EXCEPT !.edge_cases = SplitAnswer(answer)]
        ELSE IF Contains(q, "libraries")
        THEN IF Contains(q, "preferred")
             THEN [enhanced EXCEPT !.libraries_preferred = SplitAnswer(answer)]
             ELSE IF Contains(q, "forbidden")
             THEN [enhanced EXCEPT !.libraries_forbidden = SplitAnswer(answer)]
             ELSE enhanced
        ELSE enhanced

\* SpecGenerator.enhance_taskspec_with_answers; answers is answers.items(), the
\* <<question, answer>> pairs in the order of the dict
RECURSIVE enhance_taskspec_with_answers(_, _)
enhance_taskspec_with_answers(taskspec, answers) ==
    IF answers = <<>> THEN taskspec
    ELSE enhance_taskspec_with_answers(
             ApplyAnswer(taskspec, Head(answers)[1], Head(answers)[2]),
             Tail(answers))

\* the TaskSpec passed to enhance_taskspec_with_answers, after the call:
\* taskspec.copy() is shallow, so the copy's constraints_explicit is the list of
\* the original, and append() changes the one list both hold
TaskspecAfterEnhance(taskspec, answers) ==
    [taskspec EXCEPT !.constraints_explicit =
        enhance_taskspec_with_answers(taskspec, answers).constraints_explicit]

\* "<=" in place of "<" in the goal check of generate_clarifying_questions
generate_clarifying_questions_le(taskspec) ==
    (IF taskspec.inputs = <<>>
     THEN <<"What are the main inputs this code should handle?">> ELSE <<>>)
    \o (IF taskspec.outputs = <<>>
        THEN <<"What outputs should this code produce?">> ELSE <<>>)
    \o (IF Len(SplitWs(taskspec.goal)) <= 5
        THEN <<"Can you provide more details about what this code should accomplish?">>
        ELSE <<>>)
    \o (IF taskspec.testing_strategy = ""
        THEN <<"What testing approach should be used (unit tests, integration tests, etc.)?">>
        ELSE <<>>)
    \o (IF taskspec.constraints_explicit = <<>>
        THEN <<"Are there any specific requirements or constraints I should follow?">>
        ELSE <<>>)
    \o (IF taskspec.edge_cases = <<>>
        THEN <<"What edge cases or error conditions should be considered?">> ELSE <<>>)
    \o (IF taskspec.libraries_preferred = <<>> /\ taskspec.libraries_forbidden = <<>>
        THEN <<"Are there any preferred or forbidden libraries/frameworks?">> ELSE <<>>)

\* SpecGenerator.generate_clarifying_questions
generate_clarifying_questions(taskspec) ==
    (IF taskspec.inputs = <<>>
     THEN <<"What are the main inputs this code should handle?">> ELSE <<>>)
    \o (IF taskspec.outputs = <<>>
        THEN <<"What outputs should this code produce?">> ELSE <<>>)
    \o (IF Len(SplitWs(taskspec.goal)) < 5
        THEN <<"Can you provide more details about what this code should accomplish?">>
        ELSE <<>>)
    \o (IF taskspec.testing_strategy = ""
        THEN <<"What testing approach should be used (unit tests, integration tests, etc.)?">>
        ELSE <<>>)
    \o (IF taskspec.constraints_explicit = <<>>
        THEN <<"Are there any specific requirements or constraints I should follow?">>
        ELSE <<>>)
    \o (IF taskspec.edge_cases = <<>>
        THEN <<"What edge cases or error conditions should be considered?">> ELSE <<>>)
    \o (IF taskspec.libraries_preferred = <<>> /\ taskspec.libraries_forbidden = <<>>
        THEN <<"Are there any preferred or forbidden libraries/frameworks?">> ELSE <<>>)

(***************************************************************************)
(* spec.py: generate_spec, and models.py: TranscodeRequest                 *)
(***************************************************************************)

\* TranscodeRequest(**data) is accepted: prompt has min_length 1, verbosity is one
\* of the Literal's values
TranscodeRequestAccepts(data) ==
    /\ "prompt" \in DOMAIN data
    /\ Len(data["prompt"]) >= 1
    /\ Get(data, "verbosity", "normal") \in VerbosityLiteral

\* TranscodeRequest(**data)
TranscodeRequest(data) ==
    [prompt |-> data["prompt"],
     verbosity |-> Get(data, "verbosity", "normal"),
     style_profile |-> Get(data, "style_profile", NoDict)]

\* _infer_defaults(style_profile); a style_profile of None is held as the empty dict
_infer_defaults(profile) ==
    [naming_conventions |->
        Get(profile, "naming_conventions",
            <<"functions: snake_case", "classes: PascalCase">>),
     testing_strategy |-> Get(profile, "testing_strategy", "pytest; arrange-act-assert"),
     style_guides |-> Get(profile, "style_guides", <<"google docstrings">>),
     design_patterns |->
        Get(profile, "design_patterns",
            <<"dependency_injection", "pure_functions_first">>)]

generate_spec(req) ==
    [goal |-> Strip(req.prompt),
     inputs |-> <<>>,
     outputs |-> <<>>,
     constraints_explicit |-> <<>>,
     constraints_inferred |->
        <<"follow personal style profile",
          "enforce explicit error handling policy",
          "prefer small, pure functions where possible">>,
     libraries_preferred |-> <<>>,
     libraries_forbidden |-> <<>>,
     style_guides |-> _infer_defaults(req.style_profile).style_guides,
     naming_conventions |-> _infer_defaults(req.style_profile).naming_conventions,
     design_patterns |-> _infer_defaults(req.style_profile).design_patterns,
     testing_strategy |-> _infer_defaults(req.style_profile).testing_strategy,
     edge_cases |-> <<>>,
     verbosity |-> req.verbosity,
     open_questions |-> <<>>]

(***************************************************************************)
(* main.py: the endpoints that return a TaskSpec                           *)
(***************************************************************************)

\* the values of the enumerated fields
Levels == {"low", "medium", "high"}

\* jsonschema_validate(instance, SCHEMA) does not raise.  SCHEMA is read from
\* schemas/canonical_spec.schema.json; what it demands is taken from the data
\* model of the specification: the four enumerated fields hold enumerated values.
SchemaValidate(instance) ==
    /\ instance.verbosity \in VerbosityLiteral
    /\ instance.risk \in Levels
    /\ instance.priority \in Levels
    /\ instance.estimated_cost \in Levels

\* the names main.py binds at module level by its imports and definitions
MainGlobals ==
    {"Path", "json", "jsonschema_validate", "JsonSchemaValidationError", "FastAPI",
     "HTTPException", "StreamingResponse", "TranscodeRequest", "GenerateRequest",
     "GenerateResponse", "GenerateOpsRequest", "GenerateOpsResponse",
     "generate_spec", "stub_generate_code", "SpecGenerator",
     "generate_with_provider", "get_provider_stats", "prompt_registry",
     "ProjectGraphBuilder", "rag_enrichment", "permission_manager", "edit_engine",
     "vcs_ops", "health_monitor", "app", "SCHEMA", "spec_generator"}

\* raise HTTPException(status_code=500, detail=...)
HTTPException(detail) == [status |-> "raised", error |-> "HTTPException 500", detail |-> detail]

\* return taskspec.dict(): validated tells that jsonschema_validate was called on
\* the returned value and did not raise
Response(value, validated) ==
    [status |-> "returned", value |-> value, validated |-> validated]

\* generate_taskspec that returns the TaskSpec without validating it
generate_taskspec_unvalidated(profile, rows, analysis_data, all_preferred, all_forbidden) ==
    Response(cluster_signals_to_taskspec(profile, rows, analysis_data,
                                         all_preferred, all_forbidden), FALSE)

\* POST /generate_taskspec
generate_taskspec(profile, rows, analysis_data, all_preferred, all_forbidden) ==
    LET taskspec == cluster_signals_to_taskspec(profile, rows, analysis_data,
                                                all_preferred, all_forbidden)
    IN  IF SchemaValidate(taskspec)
        THEN Response(taskspec, TRUE)
        ELSE HTTPException("TaskSpec generation failed")

\* POST /enhance_taskspec.  The name TaskSpec is looked up in main.py's globals
\* when the handler runs: main.py does not import it, so the lookup raises
\* NameError, which the handler's except turns into the HTTPException.
enhance_taskspec(request) ==
    LET taskspec_data == Get(request, "taskspec", NoDict)
        answers == Get(request, "answers", <<>>)
        enhanced == enhance_taskspec_with_answers(TaskSpec(taskspec_data), answers)
    IN  IF "TaskSpec" \notin MainGlobals \/ ~TaskSpecAccepts(taskspec_data)
        THEN HTTPException("TaskSpec enhancement failed")
        ELSE IF SchemaValidate(enhanced)
        THEN Response(enhanced, TRUE)
        ELSE HTTPException("TaskSpec enhancement failed")

(***************************************************************************)
(* Inputs                                                                  *)
(***************************************************************************)

\* the contents of ~/.aeiou/style_profile.json
CustomProfile ==
    [style_guides |-> <<"pep8">>,
     testing_strategy |-> "unittest",
     libraries_preferred |-> <<"requests">>,
     libraries_forbidden |-> <<"numpy", "requests">>]

ProfileFiles ==
    {[exists |-> FALSE, loads |-> FALSE, content |-> NoDict],
     [exists |-> TRUE, loads |-> FALSE, content |-> NoDict],
     [exists |-> TRUE, loads |-> TRUE, content |-> CustomProfile]}

\* the dicts with at most the one key, its value drawn from values
OptionalKey(key, values) == {NoDict} \cup {[k \in {key} |-> v] : v \in values}

\* the values on both sides of every threshold of the scorer
DuplicationValues == {3, 4, 5, 6, 10, 11}
ComplexityValues == {50, 51, 100, 101}
CoverageValues == {19, 20, 29, 30, 49, 50}
TodoValues == {2, 3, 5, 6}
FilePaths == {"/test/file.py", "src/"}

\* analysis_data: every key may be missing, and so may the inner key of a metric
Signals ==
    {dup @@ cx @@ tg @@ td :
        dup \in OptionalKey("duplication", DuplicationValues),
        cx \in OptionalKey("complexity",
                  OptionalKey("complexity_score", ComplexityValues)),
        tg \in OptionalKey("test_gap",
                  OptionalKey("test_coverage_ratio", CoverageValues)),
        td \in OptionalKey("todos_dead_code", OptionalKey("todos", TodoValues))}

\* the analysis_data of test_json_schema_validation and of
\* test_risk_priority_calculation
ScenarioClean ==
    [filepath |-> "/test/file.py", duplication |-> 0,
     complexity |-> [complexity_score |-> 10, lines |-> 20],
     test_gap |-> [test_coverage_ratio |-> 100, functions |-> 2, test_functions |-> 2],
     todos_dead_code |-> [todos |-> 0, dead_code_indicators |-> 0]]

ScenarioRisky ==
    [filepath |-> "/test/file.py", duplication |-> 10,
     complexity |-> [complexity_score |-> 150, lines |-> 200],
     test_gap |-> [test_coverage_ratio |-> 10, functions |-> 10, test_functions |-> 1],
     todos_dead_code |-> [todos |-> 10, dead_code_indicators |-> 5]]

AnalysisData ==
    {sig @@ fp : sig \in Signals, fp \in OptionalKey("filepath", FilePaths)}
    \cup {ScenarioClean, ScenarioRisky}

\* the analysis_data of single calls
ServiceAnalysisData ==
    {ScenarioClean, ScenarioRisky, NoDict,
     [filepath |-> ""],
     [filepath |-> "src/", duplication |-> 4],
     [filepath |-> "/test/file.py", prompt |-> "avoid numpy and use pandas"]}

\* specs stored by earlier calls of store_successful_taskspec
StoredSpecA ==
    [keys |-> <<"goal", "constraints_inferred", "edge_cases">>,
     val |-> [goal |-> "Improve code quality in a.py",
              constraints_inferred |-> <<"Address code duplication", "Use a cache">>,
              edge_cases |-> <<"empty file">>]]

StoredSpecB ==
    [keys |-> <<"goal", "constraints_inferred", "edge_cases">>,
     val |-> [goal |-> "Maintain the parser",
              constraints_inferred |-> <<"Address code duplication">>,
              edge_cases |-> <<"empty file", "binary file">>]]

StoredSpecC == [keys |-> <<>>, val |-> NoDict]

\* a TaskSpec that names one constraint twice, as a TaskSpec enriched twice does
StoredSpecRepeated ==
    [keys |-> <<"goal", "constraints_inferred", "edge_cases">>,
     val |-> [goal |-> "Parse the parser input",
              constraints_inferred |-> <<"Keep it pure", "Keep it pure">>,
              edge_cases |-> <<"binary file", "huge file", "no newline", "empty file">>]]

StoredSpecMany ==
    [keys |-> <<"goal", "constraints_inferred", "edge_cases">>,
     val |-> [goal |-> "Improve parser errors",
              constraints_inferred |-> <<"Use a cache">>,
              edge_cases |-> <<"unicode", "symlink", "huge file">>]]

\* rows of the decisions table
MaxRows == 3

\* the table after the calls of stored, in order
RECURSIVE StoredAll(_)
StoredAll(stored) ==
    IF stored = <<>> THEN <<>>
    ELSE store_decision(StoredAll(SubSeq(stored, 1, Len(stored) - 1)),
                        stored[Len(stored)][1], stored[Len(stored)][2])

\* the decisions table as earlier runs of the service left it
Corpora ==
    {<<>>,
     store_decision(store_decision(<<>>, "current_project", StoredSpecA),
                    "current_project", StoredSpecB)}

(***************************************************************************)
(* Operations                                                              *)
(***************************************************************************)

\* sqlite3.connect(...).execute(...) raises when the database cannot be read
OperationalError == Raised("sqlite3.OperationalError")

\* spec_generator.cluster_signals_to_taskspec(analysis_data).  The goal of the draft
\* is never empty, so enrich_taskspec reads the decisions table; no caller of
\* get_decisions up to cluster_signals_to_taskspec catches what the read raises.
ClusterSignalsToTaskspec ==
    /\ Called("cluster_signals_to_taskspec")
    /\ \E all_preferred \in Orderings(PreferredSet(style_profile, call.arg)),
          all_forbidden \in Orderings(ForbiddenSet(style_profile, call.arg)) :
            ret' = IF readable
                   THEN Returned(cluster_signals_to_taskspec(
                                     style_profile, decisions, call.arg,
                                     all_preferred, all_forbidden))
                   ELSE OperationalError
    /\ UNCHANGED <<style_profile, decisions, readable, call>>

\* spec_generator.enhance_taskspec_with_answers(taskspec, answers); the call's
\* taskspec is the caller's object, which the method's appends reach
EnhanceTaskspecWithAnswers ==
    /\ Called("enhance_taskspec_with_answers")
    /\ ret' = Returned(enhance_taskspec_with_answers(call.arg.taskspec, call.arg.answers))
    /\ call' = [call EXCEPT !.arg.taskspec =
                    TaskspecAfterEnhance(call.arg.taskspec, call.arg.answers)]
    /\ UNCHANGED <<style_profile, decisions, readable>>

(***************************************************************************)
(* SpecScore: one assembly from analysis signals, for every input of       *)
(* AnalysisData, every style profile file and every table of Corpora       *)
(***************************************************************************)

InitScore ==
    /\ style_profile \in {_load_style_profile(f) : f \in ProfileFiles}
    /\ decisions \in Corpora
    /\ readable = TRUE
    /\ call \in {[op |-> "cluster_signals_to_taskspec", arg |-> d] : d \in AnalysisData}
    /\ ret = Pending

NextScore == ClusterSignalsToTaskspec

SpecScore == InitScore /\ [][NextScore]_vars

(***************************************************************************)
(* SpecParse: one call of parse_explicit_constraints, for every prompt of  *)
(* Prompts                                                                 *)
(***************************************************************************)

PromptLeads == {"", "Create a function that "}
AvoidVerbs ==
    {"avoid ", "Avoid ", "avoid using ", "avoids using ", "don't use ", "without "}
AvoidedLibraries == {"numpy", "requests"}
PromptJoiners == {" and ", ", ", "; ", ". Also "}
PreferVerbs == {"prefer ", "prefers ", "prefer the ", "use ", "should use ", "with "}
PreferredLibraries == {"pandas"}
PromptEnds == {"", ".", "!", " please"}

\* the avoid-type phrases, one for each of the avoid_patterns
AvoidPhrases == {"avoid using ", "don't use ", "forbid ", "no ", "without "}

\* the second prompt of test_parse_explicit_constraints
TestPromptConstraints ==
    "Write secure async code with type hints and no external dependencies"

Prompts ==
    {lead \o av \o x \o joiner \o pv \o y \o end :
        lead \in PromptLeads, av \in AvoidVerbs, x \in AvoidedLibraries,
        joiner \in PromptJoiners, pv \in PreferVerbs, y \in PreferredLibraries,
        end \in PromptEnds}
    \cup {lead \o phrase \o x \o end :
            lead \in PromptLeads, phrase \in AvoidPhrases, x \in AvoidedLibraries,
            end \in PromptEnds}
    \cup {TestPromptConstraints}

\* spec_generator.parse_explicit_constraints(prompt)
ParseExplicitConstraints ==
    /\ Called("parse_explicit_constraints")
    /\ ret' = Returned(parse_explicit_constraints(call.arg))
    /\ UNCHANGED <<style_profile, decisions, readable, call>>

InitParse ==
    /\ style_profile = _get_default_style_profile
    /\ decisions = <<>>
    /\ readable = TRUE
    /\ call \in {[op |-> "parse_explicit_constraints", arg |-> p] : p \in Prompts}
    /\ ret = Pending

NextParse == ParseExplicitConstraints

SpecParse == InitParse /\ [][NextParse]_vars

(***************************************************************************)
(* SpecQuestions: one call of generate_clarifying_questions, for every     *)
(* TaskSpec of QuestionedTaskSpecs                                         *)
(***************************************************************************)

\* goals of 0, 3, 4, 5 and 6 words
QuestionedGoals ==
    {"", "Create a function", "Sort rows by key", "Sort the rows by key",
     " Sort  the rows by\ta key "}

QuestionedTaskSpecs ==
    {TaskSpec(gl @@ ins @@ outs @@ ts @@ ce @@ ec @@ lp @@ lf) :
        gl \in {[goal |-> g] : g \in QuestionedGoals},
        ins \in OptionalKey("inputs", {<<"rows">>}),
        outs \in OptionalKey("outputs", {<<"sorted rows">>}),
        ts \in OptionalKey("testing_strategy", {"pytest"}),
        ce \in OptionalKey("constraints_explicit", {<<"be fast">>}),
        ec \in OptionalKey("edge_cases", {<<"empty list">>}),
        lp \in OptionalKey("libraries_preferred", {<<"pandas">>}),
        lf \in OptionalKey("libraries_forbidden", {<<"numpy">>})}

\* spec_generator.generate_clarifying_questions(taskspec)
GenerateClarifyingQuestions ==
    /\ Called("generate_clarifying_questions")
    /\ ret' = Returned(generate_clarifying_questions(call.arg))
    /\ UNCHANGED <<style_profile, decisions, readable, call>>

InitQuestions ==
    /\ style_profile = _get_default_style_profile
    /\ decisions = <<>>
    /\ readable = TRUE
    /\ call \in {[op |-> "generate_clarifying_questions", arg |-> t] :
                    t \in QuestionedTaskSpecs}
    /\ ret = Pending

NextQuestions == GenerateClarifyingQuestions

SpecQuestions == InitQuestions /\ [][NextQuestions]_vars

(***************************************************************************)
(* SpecEnhance: one call of enhance_taskspec_with_answers, for every        *)
(* TaskSpec of EnhancedTaskSpecs and every answers mapping of MergedAnswers *)
(***************************************************************************)

\* entries of an answers mapping
MaxAnswers == 2

\* the TaskSpec of test_enhance_taskspec_with_answers, and one with every field set
EnhancedTaskSpecs ==
    {TaskSpec([goal |-> "Create a function"]),
     TaskSpec([goal |-> "Sort the rows by a key",
               inputs |-> <<"rows">>,
               outputs |-> <<"sorted rows">>,
               constraints_explicit |-> <<"be fast">>,
               constraints_inferred |-> <<"Follow pep8">>,
               libraries_preferred |-> <<"requests">>,
               libraries_forbidden |-> <<"numpy">>,
               style_guides |-> <<"pep8">>,
               testing_strategy |-> "unittest",
               edge_cases |-> <<"empty list">>,
               verbosity |-> "verbose",
               risk |-> "high"])}

\* questions with their answers: those of test_enhance_taskspec_with_answers, those
\* generate_clarifying_questions asks, and questions a caller words differently
MergedQuestions ==
    {<<"What are the main inputs this code should handle?", "user data, configuration">>,
     <<"What outputs should this code produce?", "result object, error message">>,
     <<"What testing approach should be used?", "unit tests with pytest">>,
     <<"Are there any specific requirements or constraints I should follow?",
       "keep it stable">>,
     <<"What edge cases or error conditions should be considered?",
       " empty list ,, none">>,
     <<"Are there any preferred or forbidden libraries/frameworks?", "pandas">>,
     <<"Which LIBRARIES are Forbidden?", "numpy, scipy">>,
     <<"Which libraries are preferred?", "polars">>,
     <<"Which libraries should be used?", "requests">>,
     <<"Can you provide more details about what this code should accomplish?",
       "it sorts rows by a key">>,
     <<"What are the inputs and outputs?", "rows, sorted rows">>,
     <<"What INPUTS are there?", "x">>,
     <<"Why?", "">>}

\* the answers mappings of at most MaxAnswers entries, as item sequences; the
\* questions of a mapping are distinct
MergedAnswers ==
    {items \in UNION {[1..n -> MergedQuestions] : n \in 0..MaxAnswers} :
        \A i, j \in DOMAIN items : items[i][1] = items[j][1] => i = j}

InitEnhance ==
    /\ style_profile = _get_default_style_profile
    /\ decisions = <<>>
    /\ readable = TRUE
    /\ call \in {[op |-> "enhance_taskspec_with_answers",
                  arg |-> [taskspec |-> t, answers |-> a]] :
                    t \in EnhancedTaskSpecs, a \in MergedAnswers}
    /\ ret = Pending

NextEnhance == EnhanceTaskspecWithAnswers

SpecEnhance == InitEnhance /\ [][NextEnhance]_vars

(***************************************************************************)
(* SpecEnrich: one call of POST /enrich_taskspec, for every request of      *)
(* EnrichRequests, every table of EnrichCorpora, readable or not            *)
(***************************************************************************)

\* the dicts a caller passes as TaskSpec: any set of keys
EnrichedTaskSpecs ==
    {NoDict,
     [goal |-> ""],
     [goal |-> "", constraints_inferred |-> <<"Follow pep8">>, risk |-> "low"],
     [goal |-> "Improve the parser"],
     [goal |-> "Improve the parser", constraints_inferred |-> <<"Follow pep8">>,
      edge_cases |-> <<"empty file">>, risk |-> "high"],
     [goal |-> "Improve the parser", edge_cases |-> <<"no file">>,
      examples |-> <<"Similar task: Write the parser">>],
     [goal |-> "Zip archives", verbosity |-> "minimal"],
     [constraints_inferred |-> <<"Follow pep8">>, examples |-> <<>>]}

EnrichRequests ==
    {[taskspec |-> t] : t \in EnrichedTaskSpecs}
    \cup {[taskspec |-> t, project_context |-> "other_project"] : t \in EnrichedTaskSpecs}
    \cup {NoDict}

\* TaskSpecs stored for the project, which the goal "Improve the parser" retrieves
PatternSpecs == {StoredSpecA, StoredSpecB, StoredSpecRepeated, StoredSpecMany}

EnrichCorpora ==
    Corpora
    \cup {store_decision(<<>>, "current_project", StoredSpecA),
          store_decision(store_decision(store_decision(<<>>,
              "current_project", StoredSpecB), "other_project", StoredSpecA),
              "current_project", StoredSpecC)}
    \cup {StoredAll(stored) :
            stored \in UNION {[1..n -> {"current_project"} \X PatternSpecs] : n \in 2..MaxRows}}

\* POST /enrich_taskspec: rag_enrichment.enrich_taskspec(taskspec, project_context);
\* nothing catches what the read of the decisions table raises
EnrichTaskspec ==
    /\ Called("enrich_taskspec")
    /\ ret' = IF retrieves(Get(call.arg, "taskspec", NoDict)) /\ ~readable
              THEN OperationalError
              ELSE Returned(enrich_taskspec(Get(call.arg, "taskspec", NoDict), decisions))
    /\ UNCHANGED <<style_profile, decisions, readable, call>>

InitEnrich ==
    /\ style_profile = _get_default_style_profile
    /\ decisions \in EnrichCorpora
    /\ readable \in BOOLEAN
    /\ call \in {[op |-> "enrich_taskspec", arg |-> r] : r \in EnrichRequests}
    /\ ret = Pending

NextEnrich == EnrichTaskspec

SpecEnrich == InitEnrich /\ [][NextEnrich]_vars

(***************************************************************************)
(* SpecAssemble: one assembly from analysis signals over a decisions table *)
(* that is empty, small or large, readable or not                          *)
(***************************************************************************)

\* text repeated n times
RECURSIVE Repeat(_, _)
Repeat(text, n) ==
    IF n = 0 THEN ""
    ELSE LET half == Repeat(text, n \div 2)
         IN  half \o half \o (IF n % 2 = 1 THEN text ELSE "")

\* a stored TaskSpec with a long goal: its JSON has more than 1700 characters
StoredSpecLong ==
    [keys |-> <<"goal", "constraints_inferred", "edge_cases">>,
     val |-> [goal |-> "Improve code quality in parser.py: "
                       \o Repeat("keep every public function documented and tested, ", 34),
              constraints_inferred |-> <<"Reduce function complexity">>,
              edge_cases |-> <<"empty file">>]]

\* the table after rows calls of store_successful_taskspec with spec
RECURSIVE StoredTimes(_, _)
StoredTimes(spec, rows) ==
    IF rows = 0 THEN <<>>
    ELSE store_decision(StoredTimes(spec, rows - 1), "current_project", spec)

AssembleCorpora == Corpora \cup {StoredTimes(StoredSpecLong, 5)}

InitAssemble ==
    /\ style_profile \in {_load_style_profile(f) : f \in ProfileFiles}
    /\ decisions \in AssembleCorpora
    /\ readable \in BOOLEAN
    /\ call \in {[op |-> "cluster_signals_to_taskspec", arg |-> d] :
                    d \in ServiceAnalysisData}
    /\ ret = Pending

NextAssemble == ClusterSignalsToTaskspec

SpecAssemble == InitAssemble /\ [][NextAssemble]_vars

(***************************************************************************)
(* SpecRetrieve: one call of rag_policy.retrieve_context, for every query   *)
(* of Queries, every max_items of ItemLimits and every table of at most     *)
(* MaxRows rows                                                             *)
(***************************************************************************)

\* what one call of store_successful_taskspec stores: the project and the TaskSpec
StoredRows ==
    {<<"current_project", StoredSpecA>>, <<"current_project", StoredSpecB>>,
     <<"current_project", StoredSpecC>>, <<"other_project", StoredSpecA>>}

RetrieveCorpora ==
    {StoredAll(stored) : stored \in UNION {[1..n -> StoredRows] : n \in 0..MaxRows}}

Queries ==
    {"", "Improve the parser", "CACHE", "Zip archives", "  duplication\tbinary ",
     "empty"}

\* max_items: 5 is the default
ItemLimits == {0, 1, 2, 5}

\* rag_policy.retrieve_context(query, context_type, max_items); context_type is not
\* used.  Nothing in retrieve_context catches what get_decisions raises.
RetrieveContext ==
    /\ Called("retrieve_context")
    /\ ret' = IF readable
              THEN Returned(retrieve_context(decisions, call.arg.query, call.arg.max_items))
              ELSE OperationalError
    /\ UNCHANGED <<style_profile, decisions, readable, call>>

InitRetrieve ==
    /\ style_profile = _get_default_style_profile
    /\ decisions \in RetrieveCorpora
    /\ readable \in BOOLEAN
    /\ call \in {[op |-> "retrieve_context", arg |-> [query |-> q, max_items |-> n]] :
                    q \in Queries, n \in ItemLimits}
    /\ ret = Pending

NextRetrieve == RetrieveContext

SpecRetrieve == InitRetrieve /\ [][NextRetrieve]_vars

(***************************************************************************)
(* SpecSummarize: one call of rag_policy.summarize_overflow on a context    *)
(* that retrieve_context returned, with max_tokens around its total_tokens  *)
(***************************************************************************)

\* the contexts retrieve_context returns
RetrievedContexts ==
    {retrieve_context(rows, q, n) : rows \in RetrieveCorpora, q \in Queries, n \in ItemLimits}

\* max_tokens: the default, and the values next to total_tokens of the context
TokenLimits(context) ==
    {token_budget} \cup
    ({context.total_tokens - 1, context.total_tokens, context.total_tokens + 1} \cap Nat)

\* rag_policy.summarize_overflow(context, max_tokens): the result is a copy
\* (context.copy()), whose keys are assigned; the lists of the given context are
\* sliced, never changed in place
SummarizeOverflow ==
    /\ Called("summarize_overflow")
    /\ ret' = Returned(summarize_overflow(call.arg.context, call.arg.max_tokens))
    /\ UNCHANGED <<style_profile, decisions, readable, call>>

InitSummarize ==
    /\ style_profile = _get_default_style_profile
    /\ decisions = <<>>
    /\ readable = TRUE
    /\ call \in {[op |-> "summarize_overflow", arg |-> [context |-> c, max_tokens |-> m]] :
                    c \in RetrievedContexts, m \in UNION {TokenLimits(d) : d \in RetrievedContexts}}
    /\ ret = Pending

NextSummarize == SummarizeOverflow

SpecSummarize == InitSummarize /\ [][NextSummarize]_vars

(***************************************************************************)
(* SpecShouldRetrieve: one call of rag_policy.should_retrieve              *)
(***************************************************************************)

\* query_complexity: the two levels the policy knows, and others
QueryComplexities == {"high", "medium", "low", "", "HIGH", "Medium", "very high"}

\* available_tokens: around 0.3 and 0.5 of the budget, and the ends
AvailableTokens ==
    {0, 1, 300, 599, 600, 601, 602, 800, 999, 1000, 1001, 1002, 1500, 2000, 2001, 4000}

\* rag_policy.should_retrieve(query_complexity, available_tokens)
ShouldRetrieve ==
    /\ Called("should_retrieve")
    /\ ret' = Returned(should_retrieve(call.arg.query_complexity, call.arg.available_tokens))
    /\ UNCHANGED <<style_profile, decisions, readable, call>>

InitShouldRetrieve ==
    /\ style_profile = _get_default_style_profile
    /\ decisions = <<>>
    /\ readable = TRUE
    /\ call \in {[op |-> "should_retrieve",
                  arg |-> [query_complexity |-> c, available_tokens |-> a]] :
                    c \in QueryComplexities, a \in AvailableTokens}
    /\ ret = Pending

NextShouldRetrieve == ShouldRetrieve

SpecShouldRetrieve == InitShouldRetrieve /\ [][NextShouldRetrieve]_vars

(***************************************************************************)
(* SpecRoundTrip: a caller asks generate_clarifying_questions about a       *)
(* TaskSpec of QuestionedTaskSpecs, answers every question, merges the      *)
(* answers with enhance_taskspec_with_answers and asks again about the      *)
(* result                                                                   *)
(***************************************************************************)

\* a question about the goal
GoalQuestion == "Can you provide more details about what this code should accomplish?"

\* an answer to the question about the goal: 5 words or more
GoalAnswers == {"Sort the rows of the table by key"}

\* answers to the other questions: not blank
NonBlankAnswers == {"rows, key", " x "}

\* the caller answers every question that was returned: answers maps each question
\* to its answer, in the order of the questions
AnswerQuestions ==
    /\ Done("generate_clarifying_questions")
    /\ ret.value # <<>>
    /\ \E given \in [1..Len(ret.value) -> GoalAnswers \cup NonBlankAnswers] :
        /\ \A i \in 1..Len(ret.value) :
              given[i] \in (IF ret.value[i] = GoalQuestion
                            THEN GoalAnswers ELSE NonBlankAnswers)
        /\ call' = [op |-> "enhance_taskspec_with_answers",
                    arg |-> [taskspec |-> call.arg,
                             answers |-> [i \in 1..Len(ret.value) |->
                                            <<ret.value[i], given[i]>>]]]
    /\ ret' = Pending
    /\ UNCHANGED <<style_profile, decisions, readable>>

\* the caller asks about the TaskSpec the merge returned; answered is the answers
\* mapping that was merged into it
AskAgain ==
    /\ Done("enhance_taskspec_with_answers")
    /\ call' = [op |-> "generate_clarifying_questions", arg |-> ret.value,
                answered |-> call.arg.answers]
    /\ ret' = Pending
    /\ UNCHANGED <<style_profile, decisions, readable>>

InitRoundTrip == InitQuestions

NextRoundTrip ==
    \/ GenerateClarifyingQuestions
    \/ AnswerQuestions
    \/ EnhanceTaskspecWithAnswers
    \/ AskAgain

SpecRoundTrip == InitRoundTrip /\ [][NextRoundTrip]_vars

(***************************************************************************)
(* SpecConcurrent: the endpoints are plain functions, which the server runs *)
(* on a pool of threads: MaxThreads threads each make one call on the       *)
(* shared spec_generator and rag_enrichment.  call[t] is the call of thread *)
(* t, with its position pc and the rows its read of the decisions table     *)
(* returned; ret[t] is its result.  readable is FALSE while a connection    *)
(* holds the lock of the database file for its commit.                      *)
(***************************************************************************)

MaxThreads == 2

Threads == 1..MaxThreads

ConcurrentCalls ==
    {[op |-> "cluster_signals_to_taskspec", arg |-> d] :
        d \in {ScenarioClean, ScenarioRisky}}
    \cup {[op |-> "generate_clarifying_questions",
           arg |-> TaskSpec([goal |-> "Create a function"])]}
    \cup {[op |-> "enhance_taskspec_with_answers",
           arg |-> [taskspec |-> TaskSpec([goal |-> "Create a function"]),
                    answers |-> <<<<"Are there any specific requirements?",
                                    "keep it stable">>>>]]}
    \cup {[op |-> "store_successful_taskspec", arg |-> [taskspec |-> s]] :
            s \in {StoredSpecA, StoredSpecB}}

\* thread t is at position pc of a call of op
At(t, op, pc) == call[t].op = op /\ call[t].pc = pc

\* thread t moves to position pc
Goto(t, pc) == [call EXCEPT ![t].pc = pc]

\* cluster_signals_to_taskspec up to the SELECT of get_decisions, the one place
\* where it reads the table.  A connection that finds the file locked waits; when
\* its timeout (5 seconds, the default of sqlite3.connect) runs out before the lock
\* is released, execute raises, and nothing up to cluster_signals_to_taskspec
\* catches it.
ReadDecisions(t) ==
    /\ At(t, "cluster_signals_to_taskspec", "called")
    /\ \/ /\ readable
          /\ call' = [call EXCEPT ![t].pc = "read", ![t].snapshot = decisions]
          /\ ret' = ret
       \/ /\ ~readable
          /\ call' = Goto(t, "done")
          /\ ret' = [ret EXCEPT ![t] = OperationalError]
    /\ UNCHANGED <<style_profile, decisions, readable>>

\* the rest of cluster_signals_to_taskspec: the draft, built from the arguments
\* and self.style_profile, enriched with the rows that were read
ReturnTaskSpec(t) ==
    /\ At(t, "cluster_signals_to_taskspec", "read")
    /\ \E all_preferred \in Orderings(PreferredSet(style_profile, call[t].arg)),
          all_forbidden \in Orderings(ForbiddenSet(style_profile, call[t].arg)) :
            ret' = [ret EXCEPT ![t] = Returned(cluster_signals_to_taskspec(
                                          style_profile, call[t].snapshot, call[t].arg,
                                          all_preferred, all_forbidden))]
    /\ call' = Goto(t, "done")
    /\ UNCHANGED <<style_profile, decisions, readable>>

\* generate_clarifying_questions reads its argument only
AskQuestions(t) ==
    /\ At(t, "generate_clarifying_questions", "called")
    /\ ret' = [ret EXCEPT ![t] = Returned(generate_clarifying_questions(call[t].arg))]
    /\ call' = Goto(t, "done")
    /\ UNCHANGED <<style_profile, decisions, readable>>

\* enhance_taskspec_with_answers reads and changes its argument only
MergeAnswers(t) ==
    /\ At(t, "enhance_taskspec_with_answers", "called")
    /\ ret' = [ret EXCEPT ![t] = Returned(enhance_taskspec_with_answers(
                                      call[t].arg.taskspec, call[t].arg.answers))]
    /\ call' = [call EXCEPT ![t].pc = "done",
                            ![t].arg.taskspec = TaskspecAfterEnhance(
                                call[t].arg.taskspec, call[t].arg.answers)]
    /\ UNCHANGED <<style_profile, decisions, readable>>

\* store_decision up to the commit at the end of its with block: the connection
\* takes the lock of the file, or its timeout runs out while another holds it
BeginCommit(t) ==
    /\ At(t, "store_successful_taskspec", "called")
    /\ \/ /\ readable
          /\ readable' = FALSE
          /\ call' = Goto(t, "commit")
          /\ ret' = ret
       \/ /\ ~readable
          /\ readable' = readable
          /\ call' = Goto(t, "done")
          /\ ret' = [ret EXCEPT ![t] = OperationalError]
    /\ UNCHANGED <<style_profile, decisions>>

\* the commit: the row is in the table and the lock is released
EndCommit(t) ==
    /\ At(t, "store_successful_taskspec", "commit")
    /\ decisions' = store_decision(decisions, "current_project", call[t].arg.taskspec)
    /\ readable' = TRUE
    /\ call' = Goto(t, "done")
    /\ ret' = [ret EXCEPT ![t] = Returned("None")]
    /\ UNCHANGED style_profile

InitConcurrent ==
    /\ style_profile \in {_load_style_profile(f) : f \in ProfileFiles}
    /\ decisions \in Corpora
    /\ readable = TRUE
    /\ call \in [Threads -> {c @@ [pc |-> "called", snapshot |-> <<>>] :
                                c \in ConcurrentCalls}]
    /\ ret = [t \in Threads |-> Pending]

NextConcurrent ==
    \E t \in Threads :
        \/ ReadDecisions(t)
        \/ ReturnTaskSpec(t)
        \/ AskQuestions(t)
        \/ MergeAnswers(t)
        \/ BeginCommit(t)
        \/ EndCommit(t)

SpecConcurrent == InitConcurrent /\ [][NextConcurrent]_vars

(***************************************************************************)
(* Spec: the running service.  A caller makes one call at a time; the      *)
(* decisions table grows with every stored TaskSpec.                       *)
(***************************************************************************)

\* rows the decisions table may hold
MaxDecisions == 2

\* the keyword arguments a TaskSpec is built from
TaskSpecData ==
    {[goal |-> "Create a function"],
     [goal |-> ""],
     [goal |-> "Create a function", risk |-> "critical"],
     [goal |-> "Create a function", verbosity |-> "loud"],
     [goal |-> "Sort the rows", constraints_explicit |-> <<"be fast">>,
      priority |-> "high", estimated_cost |-> "low", verbosity |-> "minimal"],
     [inputs |-> <<"rows">>]}

TaskSpecs == {TaskSpec(d) : d \in {e \in TaskSpecData : TaskSpecAccepts(e)}}

\* questions of generate_clarifying_questions, each with an answer
QuestionsAnswered ==
    {<<"What are the main inputs this code should handle?", "a list, a key ">>,
     <<"Are there any specific requirements or constraints I should follow?",
       "keep it stable">>,
     <<"What edge cases or error conditions should be considered?", "empty list">>,
     <<"Are there any preferred or forbidden libraries/frameworks?", "pandas">>,
     <<"Can you provide more details about what this code should accomplish?",
       "it sorts rows by a key">>}

\* the answers mappings of at most MaxAnswers entries, as item sequences; the
\* questions of a mapping are distinct
AnswerItems ==
    {items \in UNION {[1..n -> QuestionsAnswered] : n \in 0..MaxAnswers} :
        \A i, j \in DOMAIN items : items[i][1] = items[j][1] => i = j}

TranscodeData ==
    {pr @@ vb @@ sp :
        pr \in OptionalKey("prompt", {"", " ", " \t", "Create a function", " sort rows\n"}),
        vb \in OptionalKey("verbosity", {"verbose", "loud"}),
        sp \in OptionalKey("style_profile", {CustomProfile})}

StoreRequests ==
    {[taskspec |-> StoredSpecA],
     [taskspec |-> StoredSpecB, project |-> "current_project"],
     [taskspec |-> StoredSpecA, project |-> "other_project"],
     [project |-> "current_project"]}

Calls ==
    {[op |-> "cluster_signals_to_taskspec", arg |-> d] : d \in ServiceAnalysisData}
    \cup {[op |-> "generate_taskspec", arg |-> d] : d \in ServiceAnalysisData}
    \cup {[op |-> "enhance_taskspec_with_answers",
           arg |-> [taskspec |-> t, answers |-> a]] : t \in TaskSpecs, a \in AnswerItems}
    \cup {[op |-> "enhance_taskspec", arg |-> [taskspec |-> d, answers |-> a]] :
             d \in TaskSpecData, a \in AnswerItems}
    \cup {[op |-> "enhance_taskspec", arg |-> NoDict]}
    \cup {[op |-> "generate_spec", arg |-> d] : d \in TranscodeData}
    \cup {[op |-> "store_successful_taskspec", arg |-> r] : r \in StoreRequests}

\* a caller makes a call
Request ==
    /\ call = Idle
    /\ \E c \in Calls :
        /\ c.op = "store_successful_taskspec" => Len(decisions) < MaxDecisions
        /\ call' = c
    /\ ret' = Pending
    /\ UNCHANGED <<style_profile, decisions, readable>>

\* the caller takes the result
Respond ==
    /\ call # Idle
    /\ ret # Pending
    /\ call' = Idle
    /\ ret' = NoResult
    /\ UNCHANGED <<style_profile, decisions, readable>>

\* POST /generate_taskspec
GenerateTaskspec ==
    /\ Called("generate_taskspec")
    /\ \E all_preferred \in Orderings(PreferredSet(style_profile, call.arg)),
          all_forbidden \in Orderings(ForbiddenSet(style_profile, call.arg)) :
            ret' = IF readable
                   THEN generate_taskspec(style_profile, decisions, call.arg,
                                          all_preferred, all_forbidden)
                   ELSE HTTPException("TaskSpec generation failed")
    /\ UNCHANGED <<style_profile, decisions, readable, call>>

\* POST /enhance_taskspec
EnhanceTaskspec ==
    /\ Called("enhance_taskspec")
    /\ ret' = enhance_taskspec(call.arg)
    /\ UNCHANGED <<style_profile, decisions, readable, call>>

\* generate_spec(TranscodeRequest(**data)); data the request model rejects never
\* reaches generate_spec
GenerateSpec ==
    /\ Called("generate_spec")
    /\ ret' = IF TranscodeRequestAccepts(call.arg)
              THEN Returned(generate_spec(TranscodeRequest(call.arg)))
              ELSE Raised("ValidationError")
    /\ UNCHANGED <<style_profile, decisions, readable, call>>

\* POST /store_successful_taskspec
StoreSuccessfulTaskspec ==
    /\ Called("store_successful_taskspec")
    /\ decisions' = IF readable
                     THEN store_decision(decisions,
                                         Get(call.arg, "project", "current_project"),
                                         Get(call.arg, "taskspec", StoredSpecC))
                     ELSE decisions
    /\ ret' = IF readable THEN Returned([status |-> "stored"]) ELSE OperationalError
    /\ UNCHANGED <<style_profile, readable, call>>

\* the database file becomes unreadable (locked, replaced, damaged), or readable
\* again, between two calls
StorageChanges ==
    /\ call = Idle
    /\ readable' = ~readable
    /\ UNCHANGED <<style_profile, decisions, call, ret>>

Init ==
    /\ style_profile \in {_load_style_profile(f) : f \in ProfileFiles}
    /\ decisions = <<>>
    /\ readable = TRUE
    /\ call = Idle
    /\ ret = NoResult

Next ==
    \/ Request
    \/ ClusterSignalsToTaskspec
    \/ GenerateTaskspec
    \/ EnhanceTaskspecWithAnswers
    \/ EnhanceTaskspec
    \/ GenerateSpec
    \/ StoreSuccessfulTaskspec
    \/ StorageChanges
    \/ Respond

Spec == Init /\ [][Next]_vars

(***************************************************************************)
(* The TaskSpecs the service hands out: claims C1 to C3, checked under Spec *)
(***************************************************************************)

C2_EnumeratedFieldsAreEnumerated ==
    Done("cluster_signals_to_taskspec") \/ Done("enhance_taskspec_with_answers") =>
        /\ ret.value.verbosity \in {"minimal", "normal", "verbose"}
        /\ ret.value.risk \in {"low", "medium", "high"}
        /\ ret.value.priority \in {"low", "medium", "high"}
        /\ ret.value.estimated_cost \in {"low", "medium", "high"}

\* C3: every TaskSpec that cluster_signals_to_taskspec, generate_spec or
\* enhance_taskspec_with_answers returns has a non-empty goal
C3_GoalIsNeverEmpty ==
    \/ Done("cluster_signals_to_taskspec")
    \/ Done("generate_spec")
    \/ Done("enhance_taskspec_with_answers")
    => ret.value.goal # ""

(***************************************************************************)
(* The signal scorer: claims C4 to C8, checked under SpecScore             *)
(***************************************************************************)

\* 1 when the condition holds, 0 when it does not
Fires(condition) == IF condition THEN 1 ELSE 0

\* floor(a / b) for a >= 0 and b > 0
Floor(a, b) == CHOOSE q \in 0..a : q * b <= a /\ a < (q + 1) * b

\* the metrics of the analysis signals of the call handled last
SigDuplication == Duplication(call.arg)
SigComplexity == ComplexityScore(call.arg)
SigCoverage == TestCoverageRatio(call.arg)
SigTodos == Todos(call.arg)

Assembled == Done("cluster_signals_to_taskspec")

Level(score, high, medium) ==
    IF score >= high THEN "high" ELSE IF score >= medium THEN "medium" ELSE "low"

RiskReference ==
    Level(3 * Fires(SigComplexity > 100)
          + 2 * Fires(SigComplexity > 50 /\ ~(SigComplexity > 100))
          + 3 * Fires(SigCoverage < 30)
          + 2 * Fires(SigCoverage < 50 /\ ~(SigCoverage < 30))
          + 2 * Fires(SigTodos > 5),
          5, 3)

\* C4: the risk of the assembled TaskSpec is the reference risk of its signals:
\* 3 for complexity > 100, else 2 for complexity > 50; 3 for coverage < 0.3, else 2
\* for coverage < 0.5; 2 for more than 5 todos; high from 5, medium from 3, else low
C4_RiskIsReference == Assembled => ret.value.risk = RiskReference

\* complexity over 100 with nothing else firing scores exactly 3: a medium risk
C4_Witness ==
    /\ Assembled
    /\ SigComplexity > 100 /\ SigCoverage >= 50 /\ SigTodos <= 5
    /\ ret.value.risk = "medium"

PriorityReference ==
    Level(3 * Fires(SigDuplication > 10) + 3 * Fires(SigComplexity > 100)
          + 3 * Fires(SigCoverage < 20) + 2 * Fires(SigDuplication > 5)
          + 2 * Fires(SigComplexity > 50),
          6, 3)

\* C5: the priority of the assembled TaskSpec is the reference priority of its
\* signals, in which the five checks are independent: 3 for duplication > 10, 3 for
\* complexity > 100, 3 for coverage < 0.2, 2 for duplication > 5, 2 for
\* complexity > 50; high from 6, medium from 3, else low
C5_PriorityIsReference == Assembled => ret.value.priority = PriorityReference

\* duplication over 10 fires both duplication checks: alone it scores 3 + 2, a
\* medium priority
C5_Witness ==
    /\ Assembled
    /\ SigDuplication > 10 /\ SigComplexity <= 50 /\ SigCoverage >= 20
    /\ ret.value.priority = "medium"

CostReference ==
    Floor(SigComplexity, 10) + Floor(SigDuplication, 2) + 2 * Fires(SigCoverage < 50)

\* C6: the estimated_cost of the assembled TaskSpec is the reference cost of its
\* (non-negative) signals: floor(complexity / 10) + floor(duplication / 2) + 2 for
\* coverage < 0.5; high above 10, medium above 5, else low
C6_CostIsReference ==
    Assembled /\ SigComplexity >= 0 /\ SigDuplication >= 0 =>
        ret.value.estimated_cost =
            (IF CostReference > 10 THEN "high"
             ELSE IF CostReference > 5 THEN "medium" ELSE "low")

\* a cost of exactly 10 is medium
C6_Witness ==
    Assembled /\ CostReference = 10 /\ ret.value.estimated_cost = "medium"

\* the analysis signals of the call with the named metric left out
Without(key) == [k \in DOMAIN call.arg \ {key} |-> call.arg[k]]

\* what a metric adds to the risk score and to the priority score, the other
\* signals held fixed
RiskContribution(key) == risk_score(call.arg) - risk_score(Without(key))
PriorityContribution(key) == priority_score(call.arg) - priority_score(Without(key))

HasInferred(constraint) == InList(constraint, ret.value.constraints_inferred)

\* C7: every threshold is strict.  complexity 50 adds nothing to the risk and
\* priority scores and no "Reduce function complexity"; complexity 51 adds exactly 2
\* to each and the constraint; a metric equal to any other threshold (duplication
\* 3, 5, 10; complexity 100; coverage 0.2, 0.3, 0.5; todos 2, 5) does not fire it
C7_ThresholdsAreStrict ==
    Assembled =>
        /\ SigComplexity = 50 =>
              /\ RiskContribution("complexity") = 0
              /\ PriorityContribution("complexity") = 0
              /\ ~HasInferred("Reduce function complexity")
        /\ SigComplexity = 51 =>
              /\ RiskContribution("complexity") = 2
              /\ PriorityContribution("complexity") = 2
              /\ HasInferred("Reduce function complexity")
        /\ SigComplexity = 100 =>
              /\ RiskContribution("complexity") = 2
              /\ PriorityContribution("complexity") = 2
        /\ SigDuplication = 3 => ~HasInferred("Address code duplication")
        /\ SigDuplication = 5 => PriorityContribution("duplication") = 0
        /\ SigDuplication = 10 => PriorityContribution("duplication") = 2
        /\ SigCoverage = 20 => PriorityContribution("test_gap") = 0
        /\ SigCoverage = 30 => RiskContribution("test_gap") = 2
        /\ SigCoverage = 50 =>
              /\ RiskContribution("test_gap") = 0
              /\ ~HasInferred("Improve test coverage")
        /\ SigTodos = 2 => ~HasInferred("Address outstanding TODO items")
        /\ SigTodos = 5 => RiskContribution("todos_dead_code") = 0

\* complexity 51 has fired the > 50 branch in an assembled TaskSpec
C7_Witness ==
    /\ Assembled
    /\ SigComplexity = 51
    /\ RiskContribution("complexity") = 2
    /\ HasInferred("Reduce function complexity")

\* the four issue checks, in the order of the code: whether each fires on the
\* signals of the call, and its inferred constraint, open question and goal label
IssueFires ==
    <<SigDuplication > 3, SigComplexity > 50, SigCoverage < 50, SigTodos > 2>>

IssueConstraint ==
    <<"Address code duplication", "Reduce function complexity",
      "Improve test coverage", "Address outstanding TODO items">>

IssueQuestion ==
    <<"Which duplicated sections should be refactored into shared functions?",
      "How can this complex function be broken down?",
      "Which functions need test cases?",
      "Which TODO items should be prioritized?">>

IssueLabel ==
    <<"refactor duplicated code", "simplify complex functions",
      "add missing tests", "address TODO items">>

RECURSIVE FiredLabels(_)
FiredLabels(k) ==
    IF k > Len(IssueLabel) THEN <<>>
    ELSE (IF IssueFires[k] THEN <<IssueLabel[k]>> ELSE <<>>) \o FiredLabels(k + 1)

\* {filename}: the base name of the file path, "unknown" without a file path
SigFilename ==
    IF Get(call.arg, "filepath", "") = "" THEN "unknown"
    ELSE basename(call.arg["filepath"])

\* C8: each issue check that fires contributes exactly one inferred constraint, one
\* open question and one goal label, and one that does not fire contributes none;
\* the goal is "Improve code quality in {filename}: " and the comma-joined labels
\* of the checks that fired, or "Maintain code quality in {filename}" when none did
C8_IssuesShapeTheTaskSpec ==
    Assembled =>
        /\ \A k \in 1..4 :
              /\ Count(IssueConstraint[k], ret.value.constraints_inferred)
                    = Fires(IssueFires[k])
              /\ Count(IssueQuestion[k], ret.value.open_questions)
                    = Fires(IssueFires[k])
        /\ Len(ret.value.open_questions) = Len(FiredLabels(1))
        /\ ret.value.goal =
              (IF \E k \in 1..4 : IssueFires[k]
               THEN "Improve code quality in " \o SigFilename \o ": "
                    \o Join(FiredLabels(1), ", ")
               ELSE "Maintain code quality in " \o SigFilename)

\* the clean scenario (duplication 0, complexity 10, coverage 1.0, no todos) was
\* assembled: no check fired, no open question, the goal is to maintain
C8_Witness ==
    /\ Assembled
    /\ call.arg = ScenarioClean
    /\ ret.value.open_questions = <<>>
    /\ ret.value.goal = "Maintain code quality in file.py"


(***************************************************************************)
(* The constraint parser: claims C9 and C10, checked under SpecParse       *)
(***************************************************************************)

Parsed == Done("parse_explicit_constraints")

\* C9: for every prompt that contains "avoid numpy" and "prefer pandas", numpy is
\* among the forbidden libraries and pandas among the preferred ones
C9_AvoidAndPreferAreParsed ==
    Parsed /\ Contains(call.arg, "avoid numpy") /\ Contains(call.arg, "prefer pandas") =>
        /\ InList("numpy", ret.value.libraries_forbidden)
        /\ InList("pandas", ret.value.libraries_preferred)

\* C10: for a prompt of the shape "... avoids using X and prefers Y", X is among
\* the forbidden libraries and Y among the preferred ones
C10_AvoidsUsingAndPrefers ==
    \A lead \in PromptLeads, x \in AvoidedLibraries, y \in PreferredLibraries :
        Parsed /\ call.arg = lead \o "avoids using " \o x \o " and prefers " \o y =>
            /\ InList(x, ret.value.libraries_forbidden)
            /\ InList(y, ret.value.libraries_preferred)

\* C11: for a prompt that mentions "secure", "async", "type hints" and "no external
\* dependencies", constraints_explicit holds the security, the async, the type
\* hints and the minimize-dependencies constraint
C11_TriggerPhrasesAreParsed ==
    /\ Parsed
    /\ Contains(Lower(call.arg), "secure")
    /\ Contains(Lower(call.arg), "async")
    /\ Contains(Lower(call.arg), "type hints")
    /\ Contains(Lower(call.arg), "no external dependencies")
    => /\ InList("Follow security best practices", ret.value.constraints_explicit)
       /\ InList("Use asynchronous programming", ret.value.constraints_explicit)
       /\ InList("Use type hints", ret.value.constraints_explicit)
       /\ InList("Minimize external dependencies", ret.value.constraints_explicit)

(***************************************************************************)
(* The clarifying questions: claim C12, checked under SpecQuestions        *)
(***************************************************************************)

Questioned == Done("generate_clarifying_questions")

\* the number of whitespace-separated words of the goal of the TaskSpec asked about
GoalWords ==
    Cardinality({i \in 1..Len(call.arg.goal) :
        /\ Char(call.arg.goal, i) \notin {" ", "\t", "\n"}
        /\ i = 1 \/ Char(call.arg.goal, i - 1) \in {" ", "\t", "\n"}})

\* the seven conditions, in the documented order
QuestionCondition ==
    <<call.arg.inputs = <<>>,
      call.arg.outputs = <<>>,
      GoalWords < 5,
      call.arg.testing_strategy = "",
      call.arg.constraints_explicit = <<>>,
      call.arg.edge_cases = <<>>,
      call.arg.libraries_preferred = <<>> /\ call.arg.libraries_forbidden = <<>>>>

\* a word that tells the question of each condition from the other six
QuestionMark ==
    <<"inputs", "outputs", "more details", "testing", "requirements",
      "edge cases", "libraries">>

\* the conditions that hold, in order
RECURSIVE HeldConditions(_)
HeldConditions(k) ==
    IF k > 7 THEN <<>>
    ELSE (IF QuestionCondition[k] THEN <<k>> ELSE <<>>) \o HeldConditions(k + 1)

\* C12: generate_clarifying_questions returns one question for each of the seven
\* conditions that holds and none for a condition that does not, in the fixed order
\* inputs, outputs, goal, testing, constraints, edge cases, libraries: seven
\* questions when all hold, none when none holds
C12_QuestionsFollowConditions ==
    Questioned =>
        /\ Len(ret.value) = Len(HeldConditions(1))
        /\ \A n \in 1..Len(ret.value) :
              /\ n <= Len(HeldConditions(1))
              /\ Contains(ret.value[n], QuestionMark[HeldConditions(1)[n]])
              /\ \A k \in 1..7 :
                    k # HeldConditions(1)[n] => ~Contains(ret.value[n], QuestionMark[k])

\* the TaskSpec of test_generate_clarifying_questions: all seven conditions hold, and
\* seven questions came back
C12_Witness ==
    /\ Questioned
    /\ call.arg = TaskSpec([goal |-> "Create a function"])
    /\ Len(ret.value) = 7

(***************************************************************************)
(* Merging answers: claims C13 to C15, checked under SpecEnhance           *)
(***************************************************************************)

\* the comma-separated, whitespace-trimmed items of each answer of MergedQuestions
Items ==
    ("user data, configuration" :> <<"user data", "configuration">>)
    @@ ("result object, error message" :> <<"result object", "error message">>)
    @@ ("unit tests with pytest" :> <<"unit tests with pytest">>)
    @@ ("keep it stable" :> <<"keep it stable">>)
    @@ (" empty list ,, none" :> <<"empty list", "", "none">>)
    @@ ("pandas" :> <<"pandas">>)
    @@ ("numpy, scipy" :> <<"numpy", "scipy">>)
    @@ ("polars" :> <<"polars">>)
    @@ ("requests" :> <<"requests">>)
    @@ ("it sorts rows by a key" :> <<"it sorts rows by a key">>)
    @@ ("rows, sorted rows" :> <<"rows", "sorted rows">>)
    @@ ("x" :> <<"x">>)
    @@ ("" :> <<"">>)

\* the question holds the keyword, whatever the case of its letters
Mentions(question, keyword) == Contains(Lower(question), keyword)

\* the field an answered question targets: that of the first keyword, in the order
\* inputs, outputs, testing, requirements or constraints, edge cases, libraries, that
\* the question holds; "none" when it holds none
TargetOf(question) ==
    IF Mentions(question, "inputs") THEN "inputs"
    ELSE IF Mentions(question, "outputs") THEN "outputs"
    ELSE IF Mentions(question, "testing") THEN "testing_strategy"
    ELSE IF Mentions(question, "requirements") \/ Mentions(question, "constraints")
    THEN "constraints_explicit"
    ELSE IF Mentions(question, "edge cases") THEN "edge_cases"
    ELSE IF Mentions(question, "libraries") /\ Mentions(question, "preferred")
    THEN "libraries_preferred"
    ELSE IF Mentions(question, "libraries") /\ Mentions(question, "forbidden")
    THEN "libraries_forbidden"
    ELSE "none"

\* the entries of answers that target field
Targeting(answers, field) == {i \in DOMAIN answers : TargetOf(answers[i][1]) = field}

Latest(S) == CHOOSE i \in S : \A j \in S : j <= i

\* the answers of the entries of answers that target field, in order
RECURSIVE AnswersFor(_, _)
AnswersFor(answers, field) ==
    IF answers = <<>> THEN <<>>
    ELSE (IF TargetOf(Head(answers)[1]) = field THEN <<Head(answers)[2]>> ELSE <<>>)
         \o AnswersFor(Tail(answers), field)

ReplacedFields == {"inputs", "outputs", "edge_cases"}

\* the fields no answer of answers targets
Untargeted(answers) ==
    {f \in TaskSpecFields : Targeting(answers, f) = {}}

\* C13 as the code has it: an answer targets the field of the first keyword its
\* question holds (a question holding the keywords of two fields changes only the
\* first).  inputs, outputs and edge_cases become the trimmed comma-separated items
\* of the last answer targeting them, testing_strategy that answer verbatim,
\* constraints_explicit gains the answers targeting it after its previous entries,
\* and every field no answer targets is unchanged.
C13_AnswersReplaceTheirTarget ==
    [][EnhanceTaskspecWithAnswers =>
        LET given == call.arg.taskspec
            answers == call.arg.answers
        IN  /\ ret'.status = "returned"
            /\ \A f \in ReplacedFields :
                  Targeting(answers, f) # {} =>
                      ret'.value[f] = Items[answers[Latest(Targeting(answers, f))][2]]
            /\ Targeting(answers, "testing_strategy") # {} =>
                  ret'.value.testing_strategy =
                      answers[Latest(Targeting(answers, "testing_strategy"))][2]
            /\ ret'.value.constraints_explicit =
                  given.constraints_explicit \o AnswersFor(answers, "constraints_explicit")
            /\ \A f \in Untargeted(answers) : ret'.value[f] = given[f]]_vars

\* the outputs answer of the test was merged into the TaskSpec that had outputs: two
\* trimmed items replace the previous one, and the constraint stays
C13_Witness ==
    /\ Done("enhance_taskspec_with_answers")
    /\ call.arg.answers =
          <<<<"What outputs should this code produce?", "result object, error message">>>>
    /\ call.arg.taskspec.constraints_explicit = <<"be fast">>
    /\ ret.value.outputs = <<"result object", "error message">>
    /\ ret.value.inputs = <<"rows">>

\* the keywords of the replaced fields
KeywordOf == [inputs |-> "inputs", outputs |-> "outputs", edge_cases |-> "edge cases"]

\* C13: for an answered question containing "inputs", "outputs" or "edge cases" the
\* field becomes exactly the trimmed comma-separated items of the answer, "testing"
\* sets testing_strategy to the answer, only "requirements" or "constraints" appends
\* to constraints_explicit, and every field no question names is unchanged
C13_EveryKeywordReplaces ==
    [][EnhanceTaskspecWithAnswers =>
        LET given == call.arg.taskspec
            answers == call.arg.answers
            Naming(keyword) == {i \in DOMAIN answers : Mentions(answers[i][1], keyword)}
        IN  /\ \A f \in ReplacedFields :
                  Naming(KeywordOf[f]) # {} =>
                      ret'.value[f] = Items[answers[Latest(Naming(KeywordOf[f]))][2]]
            /\ Naming("testing") # {} =>
                  ret'.value.testing_strategy = answers[Latest(Naming("testing"))][2]
            /\ Naming("requirements") \cup Naming("constraints") = {} =>
                  ret'.value.constraints_explicit = given.constraints_explicit
            /\ \A f \in ReplacedFields :
                  Naming(KeywordOf[f]) = {} => ret'.value[f] = given[f]]_vars


\* C14: for an answered question that contains "libraries" and "forbidden", whatever
\* the case of its letters, libraries_forbidden becomes the trimmed comma-separated
\* items of the answer; the library question of generate_clarifying_questions is
\* one such question
C14_ForbiddenLibrariesAreReplaced ==
    [][EnhanceTaskspecWithAnswers =>
        LET answers == call.arg.answers
            Naming == {i \in DOMAIN answers :
                          /\ Mentions(answers[i][1], "libraries")
                          /\ Mentions(answers[i][1], "forbidden")}
        IN  Naming # {} =>
                ret'.value.libraries_forbidden = Items[answers[Latest(Naming)][2]]]_vars


\* the question matches none of the known keywords
Unmatched(question) ==
    /\ \A keyword \in {"inputs", "outputs", "testing", "requirements", "constraints",
                       "edge cases"} : ~Mentions(question, keyword)
    /\ ~(Mentions(question, "libraries") /\ Mentions(question, "preferred"))
    /\ ~(Mentions(question, "libraries") /\ Mentions(question, "forbidden"))

\* C15: for an answers mapping none of whose questions matches a known keyword,
\* enhance_taskspec_with_answers raises no error and returns a TaskSpec equal field
\* for field to the one it was given
C15_UnmatchedQuestionsAreIgnored ==
    [][EnhanceTaskspecWithAnswers
        /\ (\A i \in DOMAIN call.arg.answers : Unmatched(call.arg.answers[i][1]))
        => /\ ret'.status = "returned"
           /\ \A f \in TaskSpecFields : ret'.value[f] = call.arg.taskspec[f]]_vars

\* two questions without a keyword, one of them about libraries, were answered for
\* the TaskSpec with every field set, and the result is that TaskSpec
C15_Witness ==
    /\ Done("enhance_taskspec_with_answers")
    /\ call.arg.answers =
          <<<<"Which libraries should be used?", "requests">>,
            <<"Can you provide more details about what this code should accomplish?",
              "it sorts rows by a key">>>>
    /\ call.arg.taskspec.constraints_explicit = <<"be fast">>
    /\ ret.value = call.arg.taskspec

(***************************************************************************)
(* Enrichment: claims C16 and C17, checked under SpecEnrich                *)
(***************************************************************************)

\* the TaskSpec of the enrichment request handled last
EnrichInput == Get(call.arg, "taskspec", NoDict)

EnrichFinished == call.op = "enrich_taskspec" /\ ret # Pending

\* C16: for a TaskSpec whose goal is empty, enrich_taskspec returns a TaskSpec equal
\* to the one it was given, whatever the decisions table holds, and retrieves
\* nothing: it returns even when the table cannot be read
C16_EmptyGoalIsNotEnriched ==
    EnrichFinished /\ Get(EnrichInput, "goal", "") = "" =>
        /\ ret.status = "returned"
        /\ ret.value = EnrichInput

\* a TaskSpec with an empty goal and a constraint came back as it was, with two
\* decisions in a table that cannot be read
C16_Witness ==
    /\ Done("enrich_taskspec")
    /\ "goal" \in DOMAIN EnrichInput
    /\ EnrichInput["goal"] = ""
    /\ "constraints_inferred" \in DOMAIN EnrichInput
    /\ Len(decisions) = 2
    /\ ~readable
    /\ ret.value = EnrichInput

IsPrefix(list, longer) ==
    Len(list) <= Len(longer) /\ SubSeq(longer, 1, Len(list)) = list

\* C17: enrichment only adds: every key of the given TaskSpec is a key of the
\* result, every list of the given TaskSpec is a prefix of the same list of the
\* result, and every other value is the same
C17_EnrichmentOnlyAdds ==
    Done("enrich_taskspec") =>
        \A key \in DOMAIN EnrichInput :
            /\ key \in DOMAIN ret.value
            /\ IF key \in StringKeys
               THEN ret.value[key] = EnrichInput[key]
               ELSE IsPrefix(EnrichInput[key], ret.value[key])

(***************************************************************************)
(* Retrieval during assembly: claims C18 and C19, checked under            *)
(* SpecAssemble                                                            *)
(***************************************************************************)

AssemblyFinished == call.op = "cluster_signals_to_taskspec" /\ ret # Pending

\* the context that enrich_taskspec merged into the draft of the assembly handled
\* last: what retrieve_context returned for the goal of the draft
MergedContext == retrieve_context(decisions, ret.value.goal, 5)

\* C18: the context that enrichment merges into the draft during assembly is within
\* the token budget: its estimated token cost is at most token_budget
C18_MergedContextIsWithinBudget ==
    Assembled => MergedContext.total_tokens <= token_budget


\* C19: when the decisions table cannot be read or is empty, the assembly returns
\* its TaskSpec instead of raising, and that TaskSpec is the draft unchanged: no
\* edge case and no pattern was merged into it
C19_AssemblySurvivesTheCorpus ==
    AssemblyFinished /\ (~readable \/ decisions = <<>>) =>
        /\ ret.status = "returned"
        /\ ret.value.edge_cases = <<>>
        /\ \A n \in 1..Len(ret.value.constraints_inferred) :
              ~StartsAt(ret.value.constraints_inferred[n], 1, "Pattern: ")

(***************************************************************************)
(* The style profile: claim C20, checked under Spec                        *)
(***************************************************************************)

\* the keys of a complete profile object
ProfileKeys == DOMAIN _get_default_style_profile

\* C20: the loaded style profile is the built-in default unless the file held a
\* complete profile object, so it always has naming_conventions and
\* testing_strategy
C20_LoadedProfileIsUsable ==
    /\ style_profile = _get_default_style_profile
       \/ ProfileKeys \subseteq DOMAIN style_profile
    /\ "naming_conventions" \in DOMAIN style_profile
    /\ "testing_strategy" \in DOMAIN style_profile

(***************************************************************************)
(* Retrieval: claims C21 and C28, checked under SpecRetrieve               *)
(***************************************************************************)

Retrieved == Done("retrieve_context")

\* the corpus as the storage hands it to retrieve_context
ProvidedCorpus == get_decisions(decisions, "current_project", 20)

\* the lower-cased whitespace-separated tokens of the query of the call
QueryTokens ==
    LET q == Lower(call.arg.query)
        Blank(i) == i < 1 \/ i > Len(q) \/ Char(q, i) \in Whitespace
        Runs == {r \in (1..Len(q)) \X (1..Len(q)) :
                    /\ r[1] <= r[2]
                    /\ Blank(r[1] - 1) /\ Blank(r[2] + 1)
                    /\ \A m \in r[1]..r[2] : ~Blank(m)}
    IN  {SubSeq(q, r[1], r[2]) : r \in Runs}

\* the record is one the query matches: some token of the query is a substring of
\* the lower-cased serialized TaskSpec of the record
Matching(record) ==
    \E token \in QueryTokens : Contains(Lower(JsonDumps(record.spec)), token)

\* the places of the matching records in the corpus
MatchingPlaces == {i \in 1..Len(ProvidedCorpus) : Matching(ProvidedCorpus[i])}

\* the n-th matching place
NthMatch(n) ==
    CHOOSE i \in MatchingPlaces : Cardinality({j \in MatchingPlaces : j < i}) = n - 1

\* C21: retrieve_context returns exactly the first max_items records of the corpus,
\* in corpus order, that the query matches: as many as match if fewer do, no record
\* that does not match, and no matching record skipped before a returned one
C21_FirstMatchesAreRetrieved ==
    Retrieved =>
        /\ Len(ret.value.decisions) =
              (IF Cardinality(MatchingPlaces) < call.arg.max_items
               THEN Cardinality(MatchingPlaces) ELSE call.arg.max_items)
        /\ \A n \in 1..Len(ret.value.decisions) :
              ret.value.decisions[n] = ProvidedCorpus[NthMatch(n)]

\* a corpus of three records whose first matches nothing and whose other two match:
\* for max_items 1 the second record of the corpus, alone, was returned
C21_Witness ==
    /\ Retrieved
    /\ Len(ProvidedCorpus) = 3
    /\ call.arg.max_items = 1
    /\ Cardinality(MatchingPlaces) = 2
    /\ 1 \notin MatchingPlaces
    /\ Len(ret.value.decisions) = 1
    /\ ret.value.decisions[1] = ProvidedCorpus[2]


\* the sum over the records of floor(length of json.dumps(record) / 4)
RECURSIVE TokenCost(_)
TokenCost(records) ==
    IF records = <<>> THEN 0
    ELSE TokenCost(SubSeq(records, 1, Len(records) - 1))
         + (Len(ItemJson(records[Len(records)])) \div 4)

\* C28: for every query, corpus and max_items, max_items = 0 included, total_tokens
\* of the returned context is the sum, over exactly the decision records of that
\* context, of floor(serialized length / 4)
C28_TotalTokensCountTheReturnedRecords ==
    Retrieved => ret.value.total_tokens = TokenCost(ret.value.decisions)


(***************************************************************************)
(* Overflow: claim C22, checked under SpecSummarize                        *)
(***************************************************************************)

\* C22: summarize_overflow returns the context unchanged when its total_tokens is
\* at most max_tokens, equality included; otherwise the decisions of the result are
\* exactly the first 2 of the input (all of them if there are 2 or fewer) and
\* total_tokens is recomputed over the kept records.  The input context is not
\* modified.
C22_OverflowKeepsTheFirstTwo ==
    [][SummarizeOverflow =>
        LET context == call.arg.context
            result == ret'.value
        IN  /\ call'.arg.context = context
            /\ ret'.status = "returned"
            /\ IF context.total_tokens <= call.arg.max_tokens
               THEN result = context
               ELSE /\ result.decisions =
                          SubSeq(context.decisions, 1,
                                 IF Len(context.decisions) < 2
                                 THEN Len(context.decisions) ELSE 2)
                    /\ result.total_tokens = TokenCost(result.decisions)
                    /\ result.similar_items = context.similar_items]_vars

\* a context of three records over max_tokens was cut to its first two
C22_Witness ==
    /\ Done("summarize_overflow")
    /\ Len(call.arg.context.decisions) = 3
    /\ call.arg.context.total_tokens > call.arg.max_tokens
    /\ Len(ret.value.decisions) = 2
    /\ ret.value.total_tokens < call.arg.context.total_tokens

\* a context whose total_tokens equals max_tokens came back as it was
C22_WitnessEqual ==
    /\ Done("summarize_overflow")
    /\ Len(call.arg.context.decisions) = 3
    /\ call.arg.context.total_tokens = call.arg.max_tokens
    /\ ret.value = call.arg.context


(***************************************************************************)
(* Retrieval policy: claim C23, checked under SpecShouldRetrieve           *)
(***************************************************************************)

\* C23: should_retrieve(complexity, available) is true exactly when complexity is
\* "high" and available > 0.5 * budget, or complexity is "medium" and
\* available > 0.3 * budget, both strictly, and false for every other complexity;
\* with the default budget of 2000, "high" needs more than 1000 and "medium" more
\* than 600
C23_RetrievalNeedsRoom ==
    Done("should_retrieve") =>
        LET complexity == call.arg.query_complexity
            available == call.arg.available_tokens
        IN  /\ ret.value \in BOOLEAN
            /\ ret.value <=> \/ complexity = "high" /\ 2 * available > token_budget
                             \/ complexity = "medium" /\ 10 * available > 3 * token_budget
            /\ ret.value <=> \/ complexity = "high" /\ available > 1000
                             \/ complexity = "medium" /\ available > 600

\* exactly at the threshold of "high" nothing is retrieved, one token above it is
C23_Witness ==
    /\ Done("should_retrieve")
    /\ call.arg.query_complexity = "high"
    /\ \/ call.arg.available_tokens = 1000 /\ ret.value = FALSE
       \/ call.arg.available_tokens = 1001 /\ ret.value = TRUE


(***************************************************************************)
(* One avoid-type phrase: claim C25, checked under SpecParse               *)
(***************************************************************************)

\* C25: a term is in both the preferred and the forbidden libraries only when the
\* prompt has conflicting language: for a prompt whose only library directive is
\* one avoid-type phrase ("avoid using X", "don't use X", "forbid X", "no X",
\* "without X"), X is among the forbidden libraries and not among the preferred
C25_AvoidedIsNotPreferred ==
    \A lead \in PromptLeads, phrase \in AvoidPhrases, x \in AvoidedLibraries,
       end \in PromptEnds :
        Parsed /\ call.arg = lead \o phrase \o x \o end =>
            /\ InList(x, ret.value.libraries_forbidden)
            /\ ~InList(x, ret.value.libraries_preferred)


(***************************************************************************)
(* Patterns and edge cases: claims C26 and C27, checked under SpecEnrich   *)
(***************************************************************************)

\* the enrichment handled last returned, and it retrieved
Enriched == Done("enrich_taskspec") /\ retrieves(EnrichInput)

\* the decisions retrieved for the goal of the TaskSpec
RetrievedDecisions == retrieve_context(decisions, EnrichInput["goal"], 5).decisions

\* what the enrichment appended to the list key of the TaskSpec
Appended(key) ==
    LET given == Get(EnrichInput, key, <<>>)
        result == Get(ret.value, key, <<>>)
    IN  SubSeq(result, Len(given) + 1, Len(result))

\* the constraints that are in constraints_inferred of at least 2 distinct
\* decisions of retrieved
SharedConstraints(retrieved) ==
    {c \in UNION {ToSet(SpecList(retrieved[i], "constraints_inferred")) :
                    i \in 1..Len(retrieved)} :
        Cardinality({i \in 1..Len(retrieved) :
            InList(c, SpecList(retrieved[i], "constraints_inferred"))}) >= 2}

\* C26: the enrichment appends "Pattern: c" exactly when c is in constraints_inferred
\* of at least 2 distinct retrieved decisions, once for each such c: a constraint of
\* only one retrieved decision, even repeated inside it, is not added
C26_PatternsAreShared ==
    Enriched =>
        LET shared == SharedConstraints(RetrievedDecisions)
            appended == Appended("constraints_inferred")
        IN  /\ ToSet(appended) = {"Pattern: " \o c : c \in shared}
            /\ Len(appended) = Cardinality(shared)

\* the places of the list where an edge case is seen first
FirstSeen(list) ==
    {i \in 1..Len(list) : \A j \in 1..(i - 1) : list[j] # list[i]}

\* C27: the edge cases appended by the enrichment are exactly the first 5 of the
\* duplicate-free union, in first-seen order, of the edge_cases of the retrieved
\* decisions in retrieval order: never more than 5
C27_FirstFiveEdgeCases ==
    Enriched =>
        LET appended == Appended("edge_cases")
            all == AllOf(RetrievedDecisions, "edge_cases")
            first == FirstSeen(all)
        IN  /\ Len(appended) = (IF Cardinality(first) < 5 THEN Cardinality(first) ELSE 5)
            /\ \A n \in 1..Len(appended) :
                  \E i \in first :
                      /\ Cardinality({j \in first : j < i}) = n - 1
                      /\ appended[n] = all[i]

\* three decisions were retrieved that name six edge cases, one of them twice; five
\* were appended after the edge case the TaskSpec had
C27_Witness ==
    /\ Enriched
    /\ Get(EnrichInput, "edge_cases", <<>>) # <<>>
    /\ Len(Appended("edge_cases")) = 5
    /\ LET all == AllOf(RetrievedDecisions, "edge_cases")
       IN  /\ Len(RetrievedDecisions) = 3
           /\ Cardinality(FirstSeen(all)) = 6
           /\ Len(all) > 6

(***************************************************************************)
(* The TaskSpec passed to the merge: claim C29, checked under SpecEnhance  *)
(***************************************************************************)

\* C29: enhance_taskspec_with_answers leaves the TaskSpec passed to it unchanged in
\* every field, for every answers map, answers to requirements or constraints
\* questions included
C29_GivenTaskSpecIsUnchanged ==
    [][EnhanceTaskspecWithAnswers =>
        \A field \in TaskSpecFields :
            call'.arg.taskspec[field] = call.arg.taskspec[field]]_vars


(***************************************************************************)
(* Asking again after the answers: claim C30, checked under SpecRoundTrip  *)
(***************************************************************************)

\* the questions were asked about the result of merging an answer to every
\* question of the TaskSpec before
AskedAgain == Done("generate_clarifying_questions") /\ "answered" \in DOMAIN call

\* the number of whitespace-separated words of the text
Words(text) ==
    Cardinality({i \in 1..Len(text) :
        /\ Char(text, i) \notin Whitespace
        /\ i = 1 \/ Char(text, i - 1) \in Whitespace})

\* C30: when every question of generate_clarifying_questions(t) is answered with an
\* answer that is not blank (the question about the goal with 5 words or more) and
\* the answers are merged with enhance_taskspec_with_answers,
\* generate_clarifying_questions returns no question for the result
C30_AnsweredQuestionsAreNotAskedAgain ==
    /\ AskedAgain
    /\ \A i \in 1..Len(call.answered) :
          /\ Words(call.answered[i][2]) >= 1
          /\ call.answered[i][1] = GoalQuestion => Words(call.answered[i][2]) >= 5
    => ret.value = <<>>

\* every question but the one about the goal is gone after the merge
C30_OnlyTheGoalIsAskedAgain ==
    AskedAgain => ret.value \in {<<>>, <<GoalQuestion>>}


(***************************************************************************)
(* Concurrent calls: claim C24, checked under SpecConcurrent               *)
(***************************************************************************)

\* what the call c returns when it runs alone on the rows it read
AloneResults(c) ==
    CASE c.op = "cluster_signals_to_taskspec" ->
            {cluster_signals_to_taskspec(style_profile, c.snapshot, c.arg, ap, af) :
                ap \in Orderings(PreferredSet(style_profile, c.arg)),
                af \in Orderings(ForbiddenSet(style_profile, c.arg))}
      [] c.op = "generate_clarifying_questions" ->
            {generate_clarifying_questions(c.arg)}
      [] c.op = "enhance_taskspec_with_answers" ->
            {enhance_taskspec_with_answers(c.arg.taskspec, c.arg.answers)}
      [] OTHER -> {"None"}

\* the shared style profile is never modified after it was loaded
C24_StyleProfileIsNeverModified == [][style_profile' = style_profile]_vars

\* every call that returns, returns what it returns when run alone on the rows it
\* read, whatever the other threads did in between
C24_CallsReturnAsAlone ==
    [][\A t \in Threads :
        ret[t] = Pending /\ ret'[t].status = "returned" =>
            ret'[t].value \in AloneResults(call[t])]_vars

\* C24: under any interleaving of concurrent calls of cluster_signals_to_taskspec,
\* generate_clarifying_questions and enhance_taskspec_with_answers on the shared
\* SpecGenerator, the style profile is never modified after load and each call
\* returns what it returns when run alone on the rows it read; a write of the
\* decisions table interleaved with a retrieval never makes the call raise
C24_ConcurrentCallsAreIndependent ==
    [][/\ style_profile' = style_profile
       /\ \A t \in Threads :
            /\ ret[t] = Pending /\ ret'[t].status = "returned" =>
                  ret'[t].value \in AloneResults(call[t])
            /\ call[t].op = "cluster_signals_to_taskspec" =>
                  ret'[t].status # "raised"]_vars

====
